---- MODULE Spec2Model ----
(***************************************************************************)
(* Highlight segment selection of spotiyrec:                               *)
(*   client/src/utils/trackAnalysis.js   findHighlightSegments             *)
(*   client/src/utils/audioAnalysis.js   detectHighlights                  *)
(* and the helpers beside it in trackAnalysis.js:                          *)
(*   calculateTrackSimilarity, generateRecommendationReasons               *)
(* and the token handling of the client:                                   *)
(*   client/src/context/SpotifyContext.jsx, hooks/useSpotifyAPI.js apiCall,*)
(*   client/src/utils/api.js response interceptor                          *)
(* and the fetch layer of hooks/useSpotifyAPI.js:                          *)
(*   getAudioFeatures, getAudioAnalysis, getTrackAnalysis                  *)
(*                                                                         *)
(* Numbers.  Times are whole seconds, loudness whole dB, tempo whole BPM.  *)
(* Quantities in [0,1] (energy, confidence) are carried in tenths.  Scores *)
(* are carried in units of 1/ScoreScale, which makes every score over the  *)
(* value sets below an exact integer; IEEE rounding is not modelled.       *)
(* JavaScript's undefined and NaN are one value here, NaN: every place the *)
(* code reads an absent field it uses it in arithmetic or a comparison,    *)
(* where undefined behaves as NaN does.                                    *)
(***************************************************************************)
EXTENDS Integers, Sequences, FiniteSets

VARIABLES analysis, features, options, lastCall, findCalls, threw, result, resultRef, path, firstResult

\* calculateTrackSimilarity: the two feature vectors a caller holds, and what
\* each call on an ordered pair of them returned
VARIABLES similarityArgs, similarity

\* generateRecommendationReasons: the track, features and userPreferences a
\* caller holds, and what the call did
VARIABLES reasonArgs, reasons

engineVars == <<analysis, features, options, lastCall, findCalls, threw, result, resultRef, path, firstResult>>

\* token handling of one SpotifyProvider: the two localStorage items, the
\* state and refs of the provider, the POSTs to /auth/exchange and
\* /auth/refresh that are in flight (the latter by the caller that sent
\* them), the pending setTimeout(refreshAccessToken) timers, where the
\* mount-time check stands, and what the last call of exchangeCodeForTokens did
VARIABLES storedAccessToken, storedRefreshToken, isAuthenticated, isExchangingCode,
          processedCode, exchangesInFlight, refreshesInFlight, refreshTimers,
          mountCheck, lastExchange

\* for each authorization code, what became of the last POST /auth/exchange
\* that carried it (last) and of the one before that (before)
VARIABLES exchangeAttempts

\* the fetch layer: how the two requests for a track end, and what the
\* last call of the fetch layer gave its caller
VARIABLES responses, fetched

\* the overlap test of the selection loop: the candidate's start and capped
\* duration, an accepted highlight's start and duration, and the test's value
VARIABLES overlapArgs, overlapTest

\* the two section scores (calculateSectionScore and the score computed in
\* the map callback of findHighlightSegments) on a section and features, and
\* on the same with one of loudness, energy, confidence raised
VARIABLES scoreArgs, scores

\* the axios instance of utils/api.js: the requests made through it (where
\* each stands, its config._retry, the refreshes and retries it caused, how
\* it was rejected and what localStorage held then) and the two localStorage
\* items the interceptors read and write
VARIABLES requests, apiStorage

\* AlbumPage: the current track (0 for null) among the tracks 1..MaxTracks of
\* the album, the tracks that have an entry in trackHighlights, the tracks
\* whose detectHighlights call is pending, and what the last press of the
\* next or previous button started from and left as the current track
VARIABLES currentTrack, trackHighlights, pendingHighlights, lastNavigation

\* the detectHighlights callback of useSpotifyAPI: how the two requests for
\* the track end, and what the callback gave its caller
VARIABLES hookResponses, hookResult

\* the server's GET /tracks/:id/highlights after a 403 of the analysis: the
\* track's duration_ms and how getTrack ends, and the body of the response
VARIABLES serverTrack, serverResponse

similarityVars == <<similarityArgs, similarity>>

serverVars == <<serverTrack, serverResponse>>

hookVars == <<hookResponses, hookResult>>

albumVars == <<currentTrack, trackHighlights, pendingHighlights, lastNavigation>>

requestVars == <<requests, apiStorage>>

scoreVars == <<scoreArgs, scores>>

overlapVars == <<overlapArgs, overlapTest>>

fetchVars == <<responses, fetched>>

reasonVars == <<reasonArgs, reasons>>

tokenVars == <<storedAccessToken, storedRefreshToken, isAuthenticated, isExchangingCode,
               processedCode, exchangesInFlight, refreshesInFlight, refreshTimers,
               mountCheck, lastExchange, exchangeAttempts>>

\* the variables of the specifications that follow the overlap test
laterVars == <<scoreVars, requestVars, albumVars, hookVars, serverVars>>

helperVars == <<similarityVars, reasonVars, tokenVars, fetchVars, overlapVars, laterVars>>

\* everything but laterVars
coreVars == <<engineVars, similarityVars, reasonVars, tokenVars, fetchVars, overlapVars>>

vars == <<engineVars, helperVars>>

-----------------------------------------------------------------------------
(* Bounds of the model *)

MaxSections == 2
MaxFindCalls == 2

(* Value sets the inputs are drawn from *)
StartValues == {0, 20}
DurationValues == {0 - 10, 10, 30}
\* analysis.segments, each segment by its start
Segments == <<0, 25>>

-----------------------------------------------------------------------------
(* JavaScript numbers *)

NaN == 0 - 1000000

IsNum(x) == x # NaN

\* a >= b, a > b, a < b, a <= b : false as soon as one side is NaN
JsGe(a, b) == IsNum(a) /\ IsNum(b) /\ a >= b
JsGt(a, b) == IsNum(a) /\ IsNum(b) /\ a > b
JsLt(a, b) == IsNum(a) /\ IsNum(b) /\ a < b
JsLe(a, b) == IsNum(a) /\ IsNum(b) /\ a <= b

\* Math.min, Math.max : NaN as soon as one argument is NaN
MathMin(a, b) == IF ~IsNum(a) \/ ~IsNum(b) THEN NaN ELSE IF a < b THEN a ELSE b
MathMax(a, b) == IF ~IsNum(a) \/ ~IsNum(b) THEN NaN ELSE IF a > b THEN a ELSE b

\* x || d : d when x is undefined, NaN or 0
OrDefault(x, d) == IF ~IsNum(x) \/ x = 0 THEN d ELSE x

\* destructuring default: d only when the property is undefined
WithDefault(x, d) == IF ~IsNum(x) THEN d ELSE x

-----------------------------------------------------------------------------
(* Scores: 1/ScoreScale units.  0.4*1.2 = 5760/12000 per unit of energy,   *)
(* i.e. 576 per tenth; 0.3 = 3600/12000 over 30 dB, i.e. 120 per dB;       *)
(* 0.2 = 2400/12000 over 160 BPM, i.e. 15 per BPM; 0.1 = 1200/12000.       *)

ScoreScale == 12000

Abs(x) == IF x < 0 THEN 0 - x ELSE x

\* (a, b) => b.score - a.score
ByScoreDesc(a, b) == IF ~IsNum(a.score) \/ ~IsNum(b.score) THEN NaN ELSE b.score - a.score

\* (a, b) => a.start - b.start
ByStartAsc(a, b) == IF ~IsNum(a.start) \/ ~IsNum(b.start) THEN NaN ELSE a.start - b.start

\* (a, b) => b.loudness - a.loudness
ByLoudnessDesc(a, b) ==
    IF ~IsNum(a.loudness) \/ ~IsNum(b.loudness) THEN NaN ELSE b.loudness - a.loudness

\* the comparator of a sort, by its name; a comparator result of NaN counts
\* as 0 (ECMAScript SortCompare)
Compare(cmp, a, b) ==
    LET v == IF cmp = "byScoreDesc" THEN ByScoreDesc(a, b)
             ELSE IF cmp = "byLoudnessDesc" THEN ByLoudnessDesc(a, b)
             ELSE ByStartAsc(a, b)
    IN  IF v = NaN THEN 0 ELSE v

\* the stable sort of Array.prototype.sort under a comparator
RECURSIVE InsertSorted(_, _, _, _)
InsertSorted(cmp, sorted, x, i) ==
    IF i > Len(sorted) THEN Append(sorted, x)
    ELSE IF Compare(cmp, x, sorted[i]) < 0
         THEN SubSeq(sorted, 1, i - 1) \o <<x>> \o SubSeq(sorted, i, Len(sorted))
         ELSE InsertSorted(cmp, sorted, x, i + 1)

RECURSIVE SortFrom(_, _, _, _)
SortFrom(cmp, arr, k, acc) ==
    IF k > Len(arr) THEN acc
    ELSE SortFrom(cmp, arr, k + 1, InsertSorted(cmp, acc, arr[k], 1))

\* an unstable sort: elements that compare equal come out in reverse order
RECURSIVE ArraySortReversingTies(_, _)
ArraySortReversingTies(cmp, arr) ==
    IF Len(arr) = 0 THEN <<>>
    ELSE LET x == arr[1]
             rest == ArraySortReversingTies(cmp, SubSeq(arr, 2, Len(arr)))
             before == {i \in 1..Len(rest) : Compare(cmp, rest[i], x) <= 0}
             n == Cardinality(before)
         IN  SubSeq(rest, 1, n) \o <<x>> \o SubSeq(rest, n + 1, Len(rest))

ArraySort(cmp, arr) == SortFrom(cmp, arr, 1, <<>>)

\* Array.prototype.sort leaves the order implementation-defined unless the
\* comparator is a consistent comparison function over the array
Consistent(cmp, arr) ==
    \A i, j, k \in 1..Len(arr) :
        (Compare(cmp, arr[i], arr[j]) = 0 /\ Compare(cmp, arr[j], arr[k]) = 0)
            => Compare(cmp, arr[i], arr[k]) = 0

\* Array.prototype.slice(0, end): a negative end counts from the end of the array
ArraySlice0(arr, end) ==
    LET final == IF end < 0
                 THEN (IF Len(arr) + end < 0 THEN 0 ELSE Len(arr) + end)
                 ELSE (IF end < Len(arr) THEN end ELSE Len(arr))
    IN  SubSeq(arr, 1, final)

-----------------------------------------------------------------------------
(* trackAnalysis.js : findHighlightSegments *)

DefaultMaxHighlights == 3
DefaultMinDuration == 20
DefaultMaxDuration == 30
\* 0.6
DefaultMinSegmentScore == (6 * ScoreScale) \div 10

\* a default highlight placed half a minute into the track
DefaultHighlightLater(f) ==
    [start |-> 30,
     duration |-> 30,
     energy |-> IF f.isNull THEN 5 ELSE OrDefault(f.energy, 5),
     loudness |-> IF f.isNull THEN 0 - 10 ELSE OrDefault(f.loudness, 0 - 10),
     tempo |-> IF f.isNull THEN 120 ELSE OrDefault(f.tempo, 120),
     score |-> (7 * ScoreScale) \div 10,
     reason |-> "Preview segment"]

\* the literal returned by the degraded path and by the catch block
DefaultHighlight(f) ==
    [start |-> 0,
     duration |-> 30,
     energy |-> IF f.isNull THEN 5 ELSE OrDefault(f.energy, 5),
     loudness |-> IF f.isNull THEN 0 - 10 ELSE OrDefault(f.loudness, 0 - 10),
     tempo |-> IF f.isNull THEN 120 ELSE OrDefault(f.tempo, 120),
     score |-> (7 * ScoreScale) \div 10,
     reason |-> "Preview segment"]

\* the marker read from the analysis alone
IsLimitedAnalysisOnly(a, f) == ~a.isNull /\ a.limited

\* analysis?._limited || features?._limited
IsLimited(a, f) == (~a.isNull /\ a.limited) \/ (~f.isNull /\ f.limited)

\* isLimited || !analysis || !features || !analysis.sections || analysis.sections.length === 0
Degraded(a, f) ==
    \/ IsLimited(a, f)
    \/ a.isNull
    \/ f.isNull
    \/ ~a.hasSections
    \/ Len(a.sections) = 0

\* Math.min(1, Math.max(0, (section.loudness + 30) / 30)), in 30ths
LoudnessScore30(section) ==
    IF ~IsNum(section.loudness) THEN NaN
    ELSE MathMin(30, MathMax(0, section.loudness + 30))

\* Math.min(1, section.tempo / 160), in 160ths
TempoScore160(section) ==
    IF ~IsNum(section.tempo) THEN NaN ELSE MathMin(160, section.tempo)

\* segments.filter(seg => seg.start >= section.start &&
\*                        seg.start < section.start + section.duration).length
SegmentCount(section, segments) ==
    Cardinality({k \in 1..Len(segments) :
        /\ JsGe(segments[k], section.start)
        /\ IsNum(section.duration)
        /\ JsLt(segments[k], section.start + section.duration)})

\* 0.1 * Math.min(1, (count / section.duration) / 5); 0/0 is NaN, 0/negative is -0
DensityTerm(section, segments) ==
    LET n == SegmentCount(section, segments)
        d == section.duration
    IN  IF ~IsNum(d) THEN NaN
        ELSE IF d = 0 THEN (IF n = 0 THEN NaN ELSE ScoreScale \div 10)
        ELSE IF d < 0 THEN MathMin(ScoreScale \div 10, 0 - ((n * ScoreScale) \div (50 * (0 - d))))
        ELSE MathMin(ScoreScale \div 10, (n * ScoreScale) \div (50 * d))

\* energyScore * 0.4 + loudnessScore * 0.3 + tempoScore * 0.2 + densityScore * 0.1
SectionScoreValue(section, segments) ==
    LET l == LoudnessScore30(section)
        t == TempoScore160(section)
        d == DensityTerm(section, segments)
    IN  IF ~IsNum(section.energy) \/ ~IsNum(l) \/ ~IsNum(t) \/ ~IsNum(d) THEN NaN
        ELSE (section.energy * 12 * 4 * ScoreScale) \div 1000
             + (l * 3 * ScoreScale) \div 300
             + (t * 2 * ScoreScale) \div 1600
             + d

\* the object built by the callback of sections.map
ScoredSection(section, segments) ==
    LET score == SectionScoreValue(section, segments)
    IN  [start |-> section.start,
         duration |-> section.duration,
         energy |-> section.energy,
         loudness |-> section.loudness,
         tempo |-> section.tempo,
         score |-> score,
         reason |-> IF JsGt(score, (8 * ScoreScale) \div 10) THEN "High energy section"
                    ELSE IF JsGt(LoudnessScore30(section), 24) THEN "Prominent, loud section"
                    ELSE IF JsGt(TempoScore160(section), 128) THEN "Fast-paced section"
                    ELSE "Key musical moment"]

\* a variant that walks the caller's array from its end with sections.reverse(),
\* which reverses the array in place
ScoreSectionsReversing(sections, segments) ==
    LET rev == [i \in 1..Len(sections) |-> sections[Len(sections) + 1 - i]]
    IN  [input |-> rev,
         scores |-> [i \in 1..Len(sections) |-> ScoredSection(rev[i], segments)]]

\* a variant that writes score and reason onto the caller's section objects
ScoreSectionsAnnotating(sections, segments) ==
    LET scored == [i \in 1..Len(sections) |->
                      [confidence |-> sections[i].confidence,
                       start |-> sections[i].start,
                       duration |-> sections[i].duration,
                       energy |-> sections[i].energy,
                       loudness |-> sections[i].loudness,
                       tempo |-> sections[i].tempo,
                       score |-> ScoredSection(sections[i], segments).score,
                       reason |-> ScoredSection(sections[i], segments).reason]]
    IN  [input |-> scored,
         scores |-> [i \in 1..Len(sections) |-> ScoredSection(sections[i], segments)]]

\* const sectionScores = sections.map(...): a new array of new objects; input
\* is what the caller's array holds afterwards
ScoreSections(sections, segments) ==
    [input |-> sections,
     scores |-> [i \in 1..Len(sections) |-> ScoredSection(sections[i], segments)]]

\* a closed test: intervals that touch at an endpoint count as overlapping
OverlapsClosed(sectionStart, sectionEnd, highlightStart, highlightEnd) ==
    JsLe(sectionStart, highlightEnd) /\ JsLe(highlightStart, sectionEnd)

\* the three clauses of the overlap test
Overlaps(sectionStart, sectionEnd, highlightStart, highlightEnd) ==
    \/ (JsGe(sectionStart, highlightStart) /\ JsLt(sectionStart, highlightEnd))
    \/ (JsGt(sectionEnd, highlightStart) /\ JsLe(sectionEnd, highlightEnd))
    \/ (JsLe(sectionStart, highlightStart) /\ JsGe(sectionEnd, highlightEnd))

WithDuration(section, d) == [section EXCEPT !.duration = d]

\* for (const section of candidateSections) { ... }
RECURSIVE SelectLoop(_, _, _, _, _)
SelectLoop(candidateSections, i, selectedHighlights, maxHighlights, maxDuration) ==
    IF i > Len(candidateSections) THEN selectedHighlights
    ELSE IF JsGe(Len(selectedHighlights), maxHighlights) THEN selectedHighlights
    ELSE LET section == candidateSections[i]
             adjustedDuration == MathMin(section.duration, maxDuration)
             overlaps == \E k \in 1..Len(selectedHighlights) :
                             Overlaps(section.start,
                                      section.start + adjustedDuration,
                                      selectedHighlights[k].start,
                                      selectedHighlights[k].start + selectedHighlights[k].duration)
         IN  SelectLoop(candidateSections, i + 1,
                        IF overlaps THEN selectedHighlights
                        ELSE Append(selectedHighlights, WithDuration(section, adjustedDuration)),
                        maxHighlights, maxDuration)

\* sortedSections.filter(section =>
\*     section.score >= minSegmentScore && section.duration >= minDuration)
RECURSIVE FilterCandidates(_, _, _, _)
FilterCandidates(sortedSections, i, minSegmentScore, minDuration) ==
    IF i > Len(sortedSections) THEN <<>>
    ELSE (IF JsGe(sortedSections[i].score, minSegmentScore)
             /\ JsGe(sortedSections[i].duration, minDuration)
          THEN <<sortedSections[i]>> ELSE <<>>)
         \o FilterCandidates(sortedSections, i + 1, minSegmentScore, minDuration)

\* a pass that accepts a candidate only if it overlaps no other candidate,
\* accepted or not: candidates that all overlap one another leave it empty
RECURSIVE KeepUnclashed(_, _, _)
KeepUnclashed(candidateSections, i, maxDuration) ==
    IF i > Len(candidateSections) THEN <<>>
    ELSE LET section == candidateSections[i]
             adjustedDuration == MathMin(section.duration, maxDuration)
             clashes == \E k \in 1..Len(candidateSections) :
                 /\ k # i
                 /\ Overlaps(section.start, section.start + adjustedDuration,
                             candidateSections[k].start,
                             candidateSections[k].start
                                 + MathMin(candidateSections[k].duration, maxDuration))
         IN  (IF clashes THEN <<>> ELSE <<WithDuration(section, adjustedDuration)>>)
             \o KeepUnclashed(candidateSections, i + 1, maxDuration)

SelectHighlightsRejectingClashes(candidateSections, maxHighlights, maxDuration) ==
    ArraySlice0(KeepUnclashed(candidateSections, 1, maxDuration),
                IF maxHighlights < 0 THEN 0 ELSE maxHighlights)

\* the loop without its first line, the break on maxHighlights
SelectHighlightsUnbounded(candidateSections, maxHighlights, maxDuration) ==
    SelectLoop(candidateSections, 1, <<>>, Len(candidateSections) + 1, maxDuration)

\* const selectedHighlights = []; for (...) { ... }
SelectHighlights(candidateSections, maxHighlights, maxDuration) ==
    SelectLoop(candidateSections, 1, <<>>, maxHighlights, maxDuration)

\* the body of the try block from the sort on; sections is non-empty here
Selection(a, o) ==
    LET maxHighlights == WithDefault(o.maxHighlights, DefaultMaxHighlights)
        minDuration == WithDefault(o.minDuration, DefaultMinDuration)
        maxDuration == WithDefault(o.maxDuration, DefaultMaxDuration)
        minSegmentScore == WithDefault(o.minSegmentScore, DefaultMinSegmentScore)
        scored == ScoreSections(a.sections, a.segments)
        sectionScores == scored.scores
        sortedSections == ArraySort("byScoreDesc", sectionScores)
        candidateSections == FilterCandidates(sortedSections, 1, minSegmentScore, minDuration)
        selectedHighlights == SelectHighlights(candidateSections, maxHighlights, maxDuration)
    IN  IF Len(candidateSections) = 0 /\ Len(sortedSections) > 0
        THEN [threw |-> FALSE,
              ret |-> <<WithDuration(sortedSections[1],
                          MathMin(MathMax(sortedSections[1].duration, minDuration), maxDuration))>>,
              ref |-> "literal", path |-> "best", sections |-> scored.input]
        ELSE IF Len(selectedHighlights) = 0 /\ Len(sortedSections) > 0
        THEN [threw |-> FALSE,
              ret |-> [k \in 1..Len(ArraySlice0(sortedSections, maxHighlights)) |->
                          WithDuration(sortedSections[k],
                                       MathMin(sortedSections[k].duration, maxDuration))],
              ref |-> "mapped", path |-> "topN", sections |-> scored.input]
        ELSE [threw |-> FALSE,
              ret |-> ArraySort("byStartAsc", selectedHighlights),
              ref |-> "selectedHighlights", path |-> "greedy", sections |-> scored.input]

\* the try block: segments.filter on an absent segments array throws a
\* TypeError inside the first map callback, before anything is selected
TryBlock(a, o) ==
    IF ~a.hasSegments
    THEN [threw |-> TRUE, ret |-> <<>>, ref |-> "none", path |-> "throw",
          sections |-> a.sections]
    ELSE Selection(a, o)

\* the function without its try/catch: what the try block throws escapes
FindHighlightSegmentsNoCatch(a, f, o) ==
    IF Degraded(a, f)
    THEN [threw |-> FALSE, ret |-> <<DefaultHighlight(f)>>, ref |-> "literal",
          path |-> "degraded", sections |-> a.sections]
    ELSE TryBlock(a, o)

\* findHighlightSegments(analysis, features, options): whether an exception
\* escapes (threw), the returned array (ret), which array it is (ref), the
\* return path taken, and what the caller's analysis.sections holds afterwards
FindHighlightSegments(a, f, o) ==
    IF Degraded(a, f)
    THEN [threw |-> FALSE, ret |-> <<DefaultHighlight(f)>>, ref |-> "literal",
          path |-> "degraded", sections |-> a.sections]
    ELSE LET body == TryBlock(a, o)
         IN  IF body.threw
             THEN [threw |-> FALSE, ret |-> <<DefaultHighlight(f)>>, ref |-> "literal",
                   path |-> "catch", sections |-> body.sections]
             ELSE body

-----------------------------------------------------------------------------
(* audioAnalysis.js : detectHighlights *)

DefaultCount == 3

\* a normalisation that peaks at -30 dB and falls off on both sides
PeakLoudness60(loudness) ==
    IF ~IsNum(loudness) THEN NaN ELSE MathMax(60 - 2 * Abs(loudness + 30), 0)

\* Math.min(Math.max((loudness + 60) / 60, 0), 1), in 60ths
NormalizeLoudness60(loudness) ==
    IF ~IsNum(loudness) THEN NaN ELSE MathMin(MathMax(loudness + 60, 0), 60)

\* 0.2 * (1 - Math.min(Math.abs(section.tempo - features.tempo) / features.tempo, 1))
TempoFactorTerm(section, f) ==
    LET whole == (2 * ScoreScale) \div 10
    IN  IF ~IsNum(section.tempo) \/ ~IsNum(f.tempo) THEN NaN
        ELSE IF f.tempo = 0
             THEN (IF section.tempo = 0 THEN NaN ELSE 0)
        ELSE IF f.tempo < 0
             THEN whole + (whole * Abs(section.tempo - f.tempo)) \div (0 - f.tempo)
        ELSE whole - MathMin((whole * Abs(section.tempo - f.tempo)) \div f.tempo, whole)

\* loudnessScore * 0.4 + tempoFactor * 0.2 + confidenceFactor * 0.2 + energyFactor * 0.2
CalculateSectionScore(section, f) ==
    LET l == NormalizeLoudness60(section.loudness)
        t == TempoFactorTerm(section, f)
    IN  IF ~IsNum(l) \/ ~IsNum(t) \/ ~IsNum(section.confidence) \/ ~IsNum(f.energy) THEN NaN
        ELSE (l * 4 * ScoreScale) \div 600
             + t
             + (section.confidence * 2 * ScoreScale) \div 100
             + (f.energy * 2 * ScoreScale) \div 100

\* { ...section, index, score: calculateSectionScore(section, features) }
IndexedSection(section, index, f) ==
    [start |-> section.start,
     duration |-> section.duration,
     energy |-> section.energy,
     loudness |-> section.loudness,
     tempo |-> section.tempo,
     confidence |-> section.confidence,
     index |-> index,
     score |-> CalculateSectionScore(section, f)]

\* the object built by the callback of orderedHighlights.map
FormatHighlight(section) ==
    [start |-> section.start,
     end |-> IF IsNum(section.start) /\ IsNum(section.duration)
             THEN section.start + section.duration ELSE NaN,
     duration |-> section.duration,
     score |-> section.score,
     loudness |-> section.loudness,
     tempo |-> section.tempo]

\* const sections = analysis.sections.map(...): a new array of new objects;
\* input is what the caller's array holds afterwards
IndexSections(sections, f) ==
    [input |-> sections,
     indexed |-> [i \in 1..Len(sections) |-> IndexedSection(sections[i], i - 1, f)]]

\* detectHighlights(analysis, features, count)
DetectHighlights(a, f, count) ==
    IF a.isNull \/ ~a.hasSections \/ ~a.hasSegments \/ f.isNull
    THEN [threw |-> FALSE, ret |-> <<>>, ref |-> "literal", sections |-> a.sections]
    ELSE LET mapped == IndexSections(a.sections, f)
             sections == mapped.indexed
             sortedSections == ArraySort("byScoreDesc", sections)
             topSections == ArraySlice0(sortedSections, count)
             orderedHighlights == ArraySort("byStartAsc", topSections)
         IN  [threw |-> FALSE,
              ret |-> [k \in 1..Len(orderedHighlights) |-> FormatHighlight(orderedHighlights[k])],
              ref |-> "mapped", sections |-> mapped.input]

-----------------------------------------------------------------------------
(* trackAnalysis.js : calculateTrackSimilarity.  The five components are   *)
(* carried in tenths, their squared differences in hundredths, and the     *)
(* similarity in units of 1/SimScale, rounded down.                        *)

SimScale == 100

\* the least r with r * r >= n: the square root of n, rounded up
CeilSqrt(n) == CHOOSE r \in 0..SimScale : r * r >= n /\ (r = 0 \/ (r - 1) * (r - 1) < n)

\* a difference that counts only when the first track exceeds the second
OneSidedDiff(x, y) ==
    IF ~IsNum(x) \/ ~IsNum(y) THEN NaN
    ELSE (IF x > y THEN (x - y) * (x - y) ELSE 0)

\* Math.pow(features1.x - features2.x, 2)
SquaredDiff(x, y) ==
    IF ~IsNum(x) \/ ~IsNum(y) THEN NaN ELSE (x - y) * (x - y)

\* Math.max(0, 1 - (Math.sqrt(sum) / Math.sqrt(5))), sum in hundredths:
\* sqrt(sum / 500) * SimScale = sqrt(sum * SimScale * SimScale / 500)
SimilarityOfSum(sum) ==
    IF ~IsNum(sum) THEN NaN
    ELSE IF sum >= 500 THEN 0
    ELSE MathMax(0, SimScale - CeilSqrt((sum * SimScale * SimScale) \div 500))

\* the sum under the square root
DistanceSum(features1, features2) ==
    LET energyDiff == SquaredDiff(features1.energy, features2.energy)
        danceabilityDiff == SquaredDiff(features1.danceability, features2.danceability)
        valenceDiff == SquaredDiff(features1.valence, features2.valence)
        acousticnessDiff == SquaredDiff(features1.acousticness, features2.acousticness)
        instrumentalnessDiff == SquaredDiff(features1.instrumentalness, features2.instrumentalness)
    IN  IF \E d \in {energyDiff, danceabilityDiff, valenceDiff, acousticnessDiff,
                     instrumentalnessDiff} : ~IsNum(d)
        THEN NaN
        ELSE energyDiff + danceabilityDiff + valenceDiff + acousticnessDiff
             + instrumentalnessDiff

\* a variant that returns the normalised distance itself
CalculateTrackDistance(features1, features2) ==
    IF features1.isNull \/ features2.isNull THEN 0
    ELSE LET sim == SimilarityOfSum(DistanceSum(features1, features2))
         IN  IF IsNum(sim) THEN SimScale - sim ELSE NaN

\* calculateTrackSimilarity(features1, features2)
CalculateTrackSimilarity(features1, features2) ==
    IF features1.isNull \/ features2.isNull THEN 0
    ELSE SimilarityOfSum(DistanceSum(features1, features2))

-----------------------------------------------------------------------------
(* trackAnalysis.js : generateRecommendationReasons.  A reason is carried  *)
(* by a short name for its sentence; popularity is a whole number, artists *)
(* are carried by their ids.                                               *)

\* if (cond) reasons.unshift(reason): the reason goes to the front
UnshiftIf(reasonList, cond, reason) == IF cond THEN <<reason>> \o reasonList ELSE reasonList

\* if (cond) reasons.push(reason)
PushIf(reasonList, cond, reason) == IF cond THEN Append(reasonList, reason) ELSE reasonList

\* userPreferences.favoriteArtists.some(a => track.artists.some(ta => ta.id === a.id))
SharesArtist(track, userPreferences) ==
    \E a \in 1..Len(userPreferences.favoriteArtists) :
        \E ta \in 1..Len(track.artists) :
            track.artists[ta] = userPreferences.favoriteArtists[a]

\* the pushes of lines 259-305, for a track that is an object
ReasonsPushed(track, f, userPreferences) ==
    LET r1 == PushIf(<<>>, JsGt(f.energy, 7), "energy")
        r2 == PushIf(r1, JsGt(f.danceability, 7), "danceability")
        r3 == PushIf(r2, JsGt(f.valence, 7), "valence")
        r4 == PushIf(r3, JsGt(f.acousticness, 7), "acousticness")
        r5 == PushIf(r4, JsGt(f.instrumentalness, 5), "instrumental")
        r6 == PushIf(r5, JsGt(track.popularity, 70), "popularity")
        r7 == PushIf(r6, track.hasArtists /\ Len(track.artists) > 0, "artist")
        r8 == PushIf(r7, /\ ~userPreferences.isNull
                         /\ userPreferences.hasFavoriteGenres
                         /\ Len(userPreferences.favoriteGenres) > 0, "genre")
        r9 == PushIf(r8, /\ ~userPreferences.isNull
                         /\ userPreferences.hasFavoriteArtists
                         /\ track.hasArtists
                         /\ SharesArtist(track, userPreferences), "favoriteArtist")
    IN  PushIf(r9, Len(r9) < 2, "generic")

\* generateRecommendationReasons(track, features, userPreferences): whether
\* an exception escapes (threw) and the returned array (ret).  Reading
\* track.popularity of a track that is null or undefined throws a TypeError.
GenerateRecommendationReasons(track, f, userPreferences) ==
    IF f.isNull THEN [threw |-> FALSE, ret |-> <<>>]
    ELSE IF track.isNull THEN [threw |-> TRUE, ret |-> <<>>]
    ELSE [threw |-> FALSE,
          ret |-> ArraySlice0(ReasonsPushed(track, f, userPreferences), 3)]

-----------------------------------------------------------------------------
(* Inputs *)

\* energy (tenths), loudness (dB), tempo (BPM), confidence (tenths) of a
\* section.  A section of the streaming API's analysis carries no energy
\* field (the third profile); one with an energy field comes from a caller
\* that adds it.
Profiles ==
    {[energy |-> 10, loudness |-> 0 - 3, tempo |-> 160, confidence |-> 9],
     [energy |-> 5, loudness |-> 0 - 10, tempo |-> 120, confidence |-> 5],
     [energy |-> NaN, loudness |-> 0 - 5, tempo |-> 128, confidence |-> 9]}

SectionShapes ==
    {[start |-> s, duration |-> d, energy |-> p.energy, loudness |-> p.loudness,
      tempo |-> p.tempo, confidence |-> p.confidence] :
        s \in StartValues, d \in DurationValues, p \in Profiles}

SectionLists == UNION {[1..n -> SectionShapes] : n \in 0..MaxSections}

\* the lists of at most one section
ShortSectionLists == {<<>>} \cup {<<s>> : s \in SectionShapes}

NullAnalysis ==
    [isNull |-> TRUE, limited |-> FALSE, hasSections |-> FALSE, sections |-> <<>>,
     hasSegments |-> FALSE, segments |-> <<>>, trackDuration |-> NaN]

\* an analysis object: _limited, sections (when present), segments (when
\* present); track.duration is a field no function of the engine reads, and
\* it is carried (WithTrackDuration) only where a property speaks of it
AnalysisObject(lim, hasSec, ss, hasSeg, sg) ==
    [isNull |-> FALSE, limited |-> lim, hasSections |-> hasSec,
     sections |-> IF hasSec THEN ss ELSE <<>>,
     hasSegments |-> hasSeg, segments |-> IF hasSeg THEN sg ELSE <<>>,
     trackDuration |-> NaN]

\* the analysis with track: {duration: d}
WithTrackDuration(a, d) == [a EXCEPT !.trackDuration = d]

NullFeatures ==
    [isNull |-> TRUE, limited |-> FALSE, energy |-> NaN, loudness |-> NaN, tempo |-> NaN]

FullFeatures ==
    [isNull |-> FALSE, limited |-> FALSE, energy |-> 9, loudness |-> 0 - 5, tempo |-> 120]

\* features = {energy: 0.5}
EnergyOnlyFeatures ==
    [isNull |-> FALSE, limited |-> FALSE, energy |-> 5, loudness |-> NaN, tempo |-> NaN]

Features ==
    {NullFeatures,
     FullFeatures,
     [isNull |-> FALSE, limited |-> TRUE, energy |-> 5, loudness |-> 0 - 10, tempo |-> 120],
     [isNull |-> FALSE, limited |-> FALSE, energy |-> 5, loudness |-> NaN, tempo |-> NaN]}

\* an option that is NaN is one the caller left out; maxHighlights is a count
Options ==
    [maxHighlights : {NaN, 0, 1},
     minDuration : {NaN, 10},
     maxDuration : {NaN, 20},
     minSegmentScore : {NaN}]

AllDefaultOptions ==
    [maxHighlights |-> NaN, minDuration |-> NaN, maxDuration |-> NaN, minSegmentScore |-> NaN]

\* inputs that reach the scoring: complete analysis and features, every
\* list of up to MaxSections sections
SelectionInputs ==
    {<<AnalysisObject(FALSE, TRUE, ss, TRUE, Segments), FullFeatures, o>> :
        ss \in SectionLists, o \in Options}

\* inputs of every shape (null, limited, sections or segments absent), with
\* at most one section
ShapeInputs ==
    {<<NullAnalysis, f, o>> : f \in Features, o \in Options}
    \cup UNION {{<<AnalysisObject(lim, hasSec, ss, hasSeg, Segments), f, o>> :
                    f \in Features, o \in Options, ss \in ShortSectionLists} :
                lim \in BOOLEAN, hasSec \in BOOLEAN, hasSeg \in BOOLEAN}

\* a track of two sections as the streaming API gives them (no energy
\* field), features {energy: 0.9, danceability: 0.8, valence: 0.7} and
\* options {maxHighlights: 3}; the analysis with and without its segments
ExampleSections ==
    <<[start |-> 0, duration |-> 30, energy |-> NaN, loudness |-> 0 - 5, tempo |-> 128,
       confidence |-> 9],
      [start |-> 30, duration |-> 25, energy |-> NaN, loudness |-> 0 - 20, tempo |-> 90,
       confidence |-> 5]>>

ExampleFeatures ==
    [isNull |-> FALSE, limited |-> FALSE, energy |-> 9, loudness |-> NaN, tempo |-> NaN]

ExampleOptions ==
    [maxHighlights |-> 3, minDuration |-> NaN, maxDuration |-> NaN, minSegmentScore |-> NaN]

ExampleInputs ==
    {<<AnalysisObject(FALSE, TRUE, ExampleSections, hasSeg, Segments),
       ExampleFeatures, ExampleOptions>> : hasSeg \in BOOLEAN}

\* a track of a quarter of a minute whose analysis has no sections, with
\* and without the marker
ShortTrackInputs ==
    {<<WithTrackDuration(AnalysisObject(lim, TRUE, <<>>, TRUE, Segments), 15), f, o>> :
        lim \in BOOLEAN, f \in Features, o \in Options}

\* features = {energy: 0, loudness: 0, tempo: 120} and its neighbours: a
\* silent track, a track mastered to 0 dB
SilentFeatures ==
    [isNull : {FALSE}, limited : {FALSE, TRUE}, energy : {0, 5}, loudness : {0, 0 - 10},
     tempo : {120}]

\* no analysis, features whose energy or loudness may be 0
SilentInputs ==
    {<<NullAnalysis, f, AllDefaultOptions>> : f \in SilentFeatures}

\* the order Array.prototype.sort produces is defined for this input
SortDefined(a) ==
    Consistent("byScoreDesc", ScoreSections(a.sections, a.segments).scores)

\* no call of calculateTrackSimilarity has been made
Uncalled == 0 - 1

NoFeatureVector ==
    [isNull |-> TRUE, energy |-> NaN, danceability |-> NaN, valence |-> NaN,
     acousticness |-> NaN, instrumentalness |-> NaN]

\* feature vectors: components inside [0,1], an energy outside it, and a
\* vector whose valence is absent
FeatureVectors ==
    [isNull : {FALSE}, energy : {0, 10, 20}, danceability : {0, 10}, valence : {0, 10},
     acousticness : {0, 10}, instrumentalness : {0, 10}]
    \cup {[isNull |-> FALSE, energy |-> 5, danceability |-> 5, valence |-> NaN,
           acousticness |-> 5, instrumentalness |-> 5]}

SimilarityIdle ==
    /\ similarityArgs = <<NoFeatureVector, NoFeatureVector>>
    /\ similarity = [ij \in {1, 2} \X {1, 2} |-> Uncalled]

NoTrack == [isNull |-> TRUE, popularity |-> NaN, hasArtists |-> FALSE, artists |-> <<>>]

\* a track object: popularity (when present), artists (when present)
Tracks ==
    {NoTrack}
    \cup [isNull : {FALSE}, popularity : {NaN, 50, 80}, hasArtists : {TRUE},
          artists : {<<>>, <<1>>, <<2>>}]
    \cup [isNull : {FALSE}, popularity : {NaN, 50, 80}, hasArtists : {FALSE},
          artists : {<<>>}]

NoUserPreferences ==
    [isNull |-> TRUE, hasFavoriteGenres |-> FALSE, favoriteGenres |-> <<>>,
     hasFavoriteArtists |-> FALSE, favoriteArtists |-> <<>>]

UserPreferences ==
    {NoUserPreferences}
    \cup {[isNull |-> FALSE, hasFavoriteGenres |-> g[1], favoriteGenres |-> g[2],
           hasFavoriteArtists |-> a[1], favoriteArtists |-> a[2]] :
            g \in {<<FALSE, <<>>>>, <<TRUE, <<>>>>, <<TRUE, <<"rock">>>>},
            a \in {<<FALSE, <<>>>>, <<TRUE, <<>>>>, <<TRUE, <<1>>>>}}

NotCalled == [called |-> FALSE, threw |-> FALSE, ret |-> <<>>]

ReasonsIdle ==
    /\ reasonArgs = <<NoTrack, NoFeatureVector, NoUserPreferences>>
    /\ reasons = NotCalled

\* the authorization codes a callback URL can carry
Codes == {"code1", "code2"}

NoAttempts == [c \in Codes |-> [last |-> "none", before |-> "none"]]

\* the callers that send POST /auth/refresh
RefreshCallers == {"mount", "timer", "apiCall", "interceptor"}

\* no provider is mounted
TokensIdle ==
    /\ storedAccessToken = FALSE
    /\ storedRefreshToken = FALSE
    /\ isAuthenticated = FALSE
    /\ isExchangingCode = FALSE
    /\ processedCode = "none"
    /\ exchangesInFlight = 0
    /\ refreshesInFlight = [c \in RefreshCallers |-> 0]
    /\ refreshTimers = 0
    /\ mountCheck = "unmounted"
    /\ lastExchange = "none"
    /\ exchangeAttempts = NoAttempts

NothingFetched ==
    [call |-> "none", threw |-> FALSE, features |-> NullFeatures, analysis |-> NullAnalysis,
     limited |-> FALSE, featuresSubstituted |-> FALSE, analysisSubstituted |-> FALSE]

\* no track was asked for
FetchIdle ==
    /\ responses = [features |-> [outcome |-> "ok", data |-> NullFeatures],
                    analysis |-> [outcome |-> "ok", data |-> NullAnalysis]]
    /\ fetched = NothingFetched

NotTested == [tested |-> FALSE, value |-> FALSE]

\* no candidate is being tested
OverlapIdle ==
    /\ overlapArgs = [sectionStart |-> 0, adjustedDuration |-> 0,
                      highlightStart |-> 0, highlightDuration |-> 0]
    /\ overlapTest = NotTested

NotScored == [called |-> FALSE, value |-> NaN]

UnraisedSection ==
    [start |-> 0, duration |-> 30, energy |-> NaN, loudness |-> NaN, tempo |-> NaN,
     confidence |-> NaN]

\* no section is being scored
ScoreIdle ==
    /\ scoreArgs = [section |-> UnraisedSection, features |-> NullFeatures,
                    dimension |-> "none",
                    raisedSection |-> UnraisedSection, raisedFeatures |-> NullFeatures]
    /\ scores = [inlineBase |-> NotScored, inlineRaised |-> NotScored,
                 calculateBase |-> NotScored, calculateRaised |-> NotScored]

NoRequest ==
    [phase |-> "idle", retry |-> FALSE, refreshes |-> 0, retries |-> 0,
     rejectedWith |-> "none", storageThen |-> "none"]

MaxRequests == 2

\* nothing was requested through the axios instance
RequestIdle ==
    /\ requests = [r \in 1..MaxRequests |-> NoRequest]
    /\ apiStorage = [accessToken |-> FALSE, refreshToken |-> FALSE]

NoNavigation == [kind |-> "none", from |-> 0, to |-> 0]

\* no album page is open
AlbumIdle ==
    /\ currentTrack = 0
    /\ trackHighlights = {}
    /\ pendingHighlights = {}
    /\ lastNavigation = NoNavigation

HookNotCalled == [called |-> FALSE, threw |-> FALSE, ret |-> <<>>, path |-> "none"]

\* the callback has no track to work on
HookIdle ==
    /\ hookResponses = [features |-> [outcome |-> "ok", data |-> NullFeatures],
                        analysis |-> [outcome |-> "ok", data |-> NullAnalysis]]
    /\ hookResult = HookNotCalled

NotSent == [sent |-> FALSE, body |-> <<>>]

\* the route has no request
ServerIdle ==
    /\ serverTrack = [durationMs |-> 0, getTrack |-> "ok"]
    /\ serverResponse = NotSent

\* the groups of laterVars other than group are idle
LaterIdleExcept(group) ==
    /\ (group = "score" \/ ScoreIdle)
    /\ (group = "request" \/ RequestIdle)
    /\ (group = "album" \/ AlbumIdle)
    /\ (group = "hook" \/ HookIdle)
    /\ (group = "server" \/ ServerIdle)

\* the groups of laterVars other than group are left as they are
LaterUnchangedExcept(group) ==
    /\ (group = "score" \/ UNCHANGED scoreVars)
    /\ (group = "request" \/ UNCHANGED requestVars)
    /\ (group = "album" \/ UNCHANGED albumVars)
    /\ (group = "hook" \/ UNCHANGED hookVars)
    /\ (group = "server" \/ UNCHANGED serverVars)

LaterIdle == LaterIdleExcept("none")

HelpersIdle ==
    SimilarityIdle /\ ReasonsIdle /\ TokensIdle /\ FetchIdle /\ OverlapIdle /\ LaterIdle

StartState ==
    /\ lastCall = "none"
    /\ findCalls = 0
    /\ threw = FALSE
    /\ result = <<>>
    /\ resultRef = "none"
    /\ path = "none"
    /\ firstResult = <<>>

\* the engine has not been given a track
EngineIdle ==
    /\ analysis = NullAnalysis
    /\ features = NullFeatures
    /\ options = AllDefaultOptions
    /\ StartState

Init ==
    /\ \E in \in SelectionInputs \cup ShapeInputs \cup ExampleInputs \cup ShortTrackInputs
                  \cup SilentInputs :
          /\ analysis = in[1]
          /\ features = in[2]
          /\ options = in[3]
    /\ SortDefined(analysis)
    /\ StartState
    /\ HelpersIdle

\* a caller invokes findHighlightSegments on its analysis, features, options
CallFindHighlightSegments ==
    /\ findCalls < MaxFindCalls
    /\ LET out == FindHighlightSegments(analysis, features, options)
       IN  /\ analysis' = [analysis EXCEPT !.sections = out.sections]
           /\ threw' = out.threw
           /\ result' = out.ret
           /\ resultRef' = out.ref
           /\ path' = out.path
           /\ firstResult' = IF findCalls = 0 THEN out.ret ELSE firstResult
    /\ lastCall' = "find"
    /\ findCalls' = findCalls + 1
    /\ UNCHANGED <<features, options>>
    /\ UNCHANGED helperVars

\* a caller invokes detectHighlights on the same analysis and features
CallDetectHighlights ==
    /\ LET out == DetectHighlights(analysis, features, DefaultCount)
       IN  /\ analysis' = [analysis EXCEPT !.sections = out.sections]
           /\ threw' = out.threw
           /\ result' = out.ret
           /\ resultRef' = out.ref
    /\ path' = "detect"
    /\ lastCall' = "detect"
    /\ UNCHANGED <<features, options, findCalls, firstResult>>
    /\ UNCHANGED helperVars

Next == CallFindHighlightSegments \/ CallDetectHighlights

Spec == Init /\ [][Next]_vars

-----------------------------------------------------------------------------
(* Three and more sections, with the counts a caller can pass as           *)
(* maxHighlights, negative ones included: the inputs of the top-N fallback *)

WideSections == 3

WideShapes ==
    {sh \in SectionShapes : IsNum(sh.energy) /\ sh.duration > 0}

WideOptions ==
    [maxHighlights : {NaN, 0 - 1, 0, 1, 2},
     minDuration : {NaN, 10},
     maxDuration : {NaN},
     minSegmentScore : {NaN}]

InitWide ==
    /\ \E ss \in [1..WideSections -> WideShapes] :
          analysis = AnalysisObject(FALSE, TRUE, ss, TRUE, Segments)
    /\ features = FullFeatures
    /\ options \in WideOptions
    /\ StartState
    /\ HelpersIdle

SpecWide == InitWide /\ [][Next]_vars

-----------------------------------------------------------------------------
(* calculateTrackSimilarity on every ordered pair of two feature vectors   *)

InitSimilarity ==
    /\ similarityArgs \in (FeatureVectors \cup {NoFeatureVector})
                          \X (FeatureVectors \cup {NoFeatureVector})
    /\ similarity = [ij \in {1, 2} \X {1, 2} |-> Uncalled]
    /\ ReasonsIdle
    /\ TokensIdle
    /\ FetchIdle
    /\ OverlapIdle
    /\ EngineIdle
    /\ LaterIdle

\* a caller invokes calculateTrackSimilarity(similarityArgs[i], similarityArgs[j])
CallCalculateTrackSimilarity ==
    /\ \E i, j \in {1, 2} :
          /\ similarity[<<i, j>>] = Uncalled
          /\ similarity' = [similarity EXCEPT ![<<i, j>>] =
                               CalculateTrackSimilarity(similarityArgs[i], similarityArgs[j])]
    /\ UNCHANGED <<similarityArgs, reasonVars, tokenVars, fetchVars, overlapVars, engineVars,
                   laterVars>>

NextSimilarity == CallCalculateTrackSimilarity

SpecSimilarity == InitSimilarity /\ [][NextSimilarity]_vars

-----------------------------------------------------------------------------
(* generateRecommendationReasons on a track, features and userPreferences  *)

InitReasons ==
    /\ reasonArgs \in Tracks \X (FeatureVectors \cup {NoFeatureVector}) \X UserPreferences
    /\ reasons = NotCalled
    /\ SimilarityIdle
    /\ TokensIdle
    /\ FetchIdle
    /\ OverlapIdle
    /\ EngineIdle
    /\ LaterIdle

\* a caller invokes generateRecommendationReasons on what it holds
CallGenerateRecommendationReasons ==
    /\ ~reasons.called
    /\ LET out == GenerateRecommendationReasons(reasonArgs[1], reasonArgs[2], reasonArgs[3])
       IN  reasons' = [called |-> TRUE, threw |-> out.threw, ret |-> out.ret]
    /\ UNCHANGED <<reasonArgs, similarityVars, tokenVars, fetchVars, overlapVars, engineVars,
                   laterVars>>

NextReasons == CallGenerateRecommendationReasons

SpecReasons == InitReasons /\ [][NextReasons]_vars

-----------------------------------------------------------------------------
(* Token handling of the client.  Every handler is cut at its awaits: one  *)
(* action up to the request it sends, one action for the response.         *)

MaxInFlight == 2
MaxTimers == 2

TotalRefreshesInFlight ==
    refreshesInFlight["mount"] + refreshesInFlight["timer"]
    + refreshesInFlight["apiCall"] + refreshesInFlight["interceptor"]

\* the token handling touches nothing of the engine and its helpers
ExchangeOnly ==
    UNCHANGED <<engineVars, similarityVars, reasonVars, fetchVars, overlapVars, laterVars>>

\* a handler that sends no POST /auth/exchange and receives none
TokensOnly == ExchangeOnly /\ UNCHANGED exchangeAttempts

\* setTimeout(() => { refreshAccessToken(); }, ...)
SetRefreshTimer == refreshTimers' = refreshTimers + 1

\* refreshAccessToken up to its await: without a stored refresh token it
\* clears isAuthenticated and returns null, otherwise it sends the POST
RefreshAccessToken(caller) ==
    IF ~storedRefreshToken
    THEN /\ isAuthenticated' = FALSE
         /\ UNCHANGED refreshesInFlight
    ELSE /\ TotalRefreshesInFlight < MaxInFlight
         /\ refreshesInFlight' = [refreshesInFlight EXCEPT ![caller] = @ + 1]
         /\ UNCHANGED isAuthenticated

\* refreshAccessToken from its await on: the response of POST /auth/refresh
RefreshResponds ==
    \E caller \in RefreshCallers \ {"interceptor"}, ok \in BOOLEAN :
        /\ refreshesInFlight[caller] > 0
        /\ refreshesInFlight' = [refreshesInFlight EXCEPT ![caller] = @ - 1]
        /\ IF ok
           THEN /\ refreshTimers < MaxTimers
                /\ storedAccessToken' = TRUE
                /\ isAuthenticated' = TRUE
                /\ SetRefreshTimer
           ELSE /\ storedAccessToken' = FALSE
                /\ isAuthenticated' = FALSE
                /\ UNCHANGED refreshTimers
        /\ UNCHANGED <<storedRefreshToken, isExchangingCode, processedCode,
                       exchangesInFlight, mountCheck, lastExchange>>
    /\ TokensOnly

\* a timer set by setTimeout fires
RefreshTimerFires ==
    /\ refreshTimers > 0
    /\ refreshTimers' = refreshTimers - 1
    /\ RefreshAccessToken("timer")
    /\ UNCHANGED <<storedAccessToken, storedRefreshToken, isExchangingCode, processedCode,
                   exchangesInFlight, mountCheck, lastExchange>>
    /\ TokensOnly

\* apiCall: the request of an authenticated caller fails with an
\* authorization error and the catch block calls refreshAccessToken
ApiCallAuthError ==
    /\ isAuthenticated
    /\ RefreshAccessToken("apiCall")
    /\ UNCHANGED <<storedAccessToken, storedRefreshToken, isExchangingCode, processedCode,
                   exchangesInFlight, refreshTimers, mountCheck, lastExchange>>
    /\ TokensOnly

\* checkStoredTokens up to its first await
CheckStoredTokens ==
    /\ mountCheck = "unmounted"
    /\ IF storedAccessToken
       THEN /\ isAuthenticated' = TRUE
            /\ mountCheck' = IF storedRefreshToken THEN "getMeWithRefresh" ELSE "getMe"
            /\ UNCHANGED refreshesInFlight
       ELSE IF storedRefreshToken
       THEN /\ RefreshAccessToken("mount")
            /\ mountCheck' = "done"
       ELSE /\ isAuthenticated' = FALSE
            /\ mountCheck' = "done"
            /\ UNCHANGED refreshesInFlight
    /\ UNCHANGED <<storedAccessToken, storedRefreshToken, isExchangingCode, processedCode,
                   exchangesInFlight, refreshTimers, lastExchange>>
    /\ TokensOnly

\* checkStoredTokens after spotifyApi.getMe() with the stored access token
GetMeResponds ==
    /\ mountCheck \in {"getMe", "getMeWithRefresh"}
    /\ mountCheck' = "done"
    /\ \E ok \in BOOLEAN :
          IF ok
          THEN /\ IF mountCheck = "getMeWithRefresh"
                  THEN refreshTimers < MaxTimers /\ SetRefreshTimer
                  ELSE UNCHANGED refreshTimers
               /\ UNCHANGED <<storedAccessToken, isAuthenticated, refreshesInFlight>>
          ELSE IF mountCheck = "getMeWithRefresh"
          THEN /\ RefreshAccessToken("mount")
               /\ UNCHANGED <<storedAccessToken, refreshTimers>>
          ELSE /\ storedAccessToken' = FALSE
               /\ isAuthenticated' = FALSE
               /\ UNCHANGED <<refreshesInFlight, refreshTimers>>
    /\ UNCHANGED <<storedRefreshToken, isExchangingCode, processedCode,
                   exchangesInFlight, lastExchange>>
    /\ TokensOnly

\* handleCodeFromUrl with a code on /callback, and exchangeCodeForTokens up
\* to its await: the handler skips a processed code; the function returns
\* null while an exchange is running, else it sends the POST
ExchangeCodeForTokens ==
    \E code \in Codes :
        /\ processedCode # code
        /\ IF isExchangingCode
           THEN /\ lastExchange' = "skipped"
                /\ UNCHANGED <<isExchangingCode, processedCode, exchangesInFlight,
                               exchangeAttempts>>
           ELSE /\ isExchangingCode' = TRUE
                /\ processedCode' = code
                /\ exchangesInFlight' = exchangesInFlight + 1
                /\ lastExchange' = "sent"
                /\ exchangeAttempts' = [exchangeAttempts EXCEPT ![code] =
                       [last |-> "inFlight", before |-> exchangeAttempts[code].last]]
        /\ UNCHANGED <<storedAccessToken, storedRefreshToken, isAuthenticated,
                       refreshesInFlight, refreshTimers, mountCheck>>
    /\ ExchangeOnly

\* exchangeCodeForTokens from its await on: the response of POST /auth/exchange
ExchangeResponds ==
    /\ exchangesInFlight > 0
    /\ exchangesInFlight' = exchangesInFlight - 1
    /\ isExchangingCode' = FALSE
    /\ \E ok \in BOOLEAN, withRefreshToken \in BOOLEAN :
          /\ exchangeAttempts' = [c \in Codes |->
                 IF exchangeAttempts[c].last = "inFlight"
                 THEN [exchangeAttempts[c] EXCEPT !.last = IF ok THEN "ok" ELSE "failed"]
                 ELSE exchangeAttempts[c]]
          /\ IF ok
             THEN /\ refreshTimers < MaxTimers
                  /\ storedAccessToken' = TRUE
                  /\ isAuthenticated' = TRUE
                  /\ storedRefreshToken' = (storedRefreshToken \/ withRefreshToken)
                  /\ SetRefreshTimer
                  /\ UNCHANGED processedCode
             ELSE /\ processedCode' = "none"
                  /\ UNCHANGED <<storedAccessToken, storedRefreshToken, isAuthenticated,
                                 refreshTimers>>
    /\ UNCHANGED <<refreshesInFlight, mountCheck, lastExchange>>
    /\ ExchangeOnly

\* handleCodeFromUrl with access_token in the URL
LoginFromUrlToken ==
    /\ \E withRefreshToken \in BOOLEAN, withExpires \in BOOLEAN :
          /\ storedAccessToken' = TRUE
          /\ isAuthenticated' = TRUE
          /\ storedRefreshToken' = (storedRefreshToken \/ withRefreshToken)
          /\ IF withExpires
             THEN refreshTimers < MaxTimers /\ SetRefreshTimer
             ELSE UNCHANGED refreshTimers
    /\ UNCHANGED <<isExchangingCode, processedCode, exchangesInFlight, refreshesInFlight,
                   mountCheck, lastExchange>>
    /\ TokensOnly

\* logout
Logout ==
    /\ storedAccessToken' = FALSE
    /\ storedRefreshToken' = FALSE
    /\ isAuthenticated' = FALSE
    /\ processedCode' = "none"
    /\ UNCHANGED <<isExchangingCode, exchangesInFlight, refreshesInFlight, refreshTimers,
                   mountCheck, lastExchange>>
    /\ TokensOnly

\* the response interceptor of api.js up to its await: a 401 on a request
\* that was not retried yet; without a stored refresh token it rejects
InterceptorSees401 ==
    /\ storedRefreshToken
    /\ TotalRefreshesInFlight < MaxInFlight
    /\ refreshesInFlight' = [refreshesInFlight EXCEPT !["interceptor"] = @ + 1]
    /\ UNCHANGED <<storedAccessToken, storedRefreshToken, isAuthenticated, isExchangingCode,
                   processedCode, exchangesInFlight, refreshTimers, mountCheck, lastExchange>>
    /\ TokensOnly

\* the response interceptor from its await on
InterceptorRefreshResponds ==
    /\ refreshesInFlight["interceptor"] > 0
    /\ refreshesInFlight' = [refreshesInFlight EXCEPT !["interceptor"] = @ - 1]
    /\ \E ok \in BOOLEAN :
          IF ok
          THEN /\ storedAccessToken' = TRUE
               /\ UNCHANGED storedRefreshToken
          ELSE /\ storedAccessToken' = FALSE
               /\ storedRefreshToken' = FALSE
    /\ UNCHANGED <<isAuthenticated, isExchangingCode, processedCode, exchangesInFlight,
                   refreshTimers, mountCheck, lastExchange>>
    /\ TokensOnly

\* a page load: localStorage holds what an earlier session left
InitTokens ==
    /\ storedAccessToken \in BOOLEAN
    /\ storedRefreshToken \in BOOLEAN
    /\ isAuthenticated = FALSE
    /\ isExchangingCode = FALSE
    /\ processedCode = "none"
    /\ exchangesInFlight = 0
    /\ refreshesInFlight = [c \in RefreshCallers |-> 0]
    /\ refreshTimers = 0
    /\ mountCheck = "unmounted"
    /\ lastExchange = "none"
    /\ exchangeAttempts = NoAttempts
    /\ SimilarityIdle
    /\ ReasonsIdle
    /\ FetchIdle
    /\ OverlapIdle
    /\ EngineIdle
    /\ LaterIdle

NextTokens ==
    \/ CheckStoredTokens
    \/ GetMeResponds
    \/ RefreshTimerFires
    \/ RefreshResponds
    \/ ApiCallAuthError
    \/ ExchangeCodeForTokens
    \/ ExchangeResponds
    \/ LoginFromUrlToken
    \/ Logout
    \/ InterceptorSees401
    \/ InterceptorRefreshResponds

SpecTokens == InitTokens /\ [][NextTokens]_vars

-----------------------------------------------------------------------------
(* hooks/useSpotifyAPI.js : getAudioFeatures, getAudioAnalysis,            *)
(* getTrackAnalysis.  apiCall either returns the response or throws an     *)
(* error with a status; the fetch layer returns the data, returns a        *)
(* literal in its place (substituted), or throws.                          *)

\* how apiCall ends: the data, 403, or another error (401 after the retry, 5xx)
Outcomes == {"ok", "forbidden", "unauthorized", "serverError"}

\* the literal getAudioFeatures returns on 403
LimitedFeatures ==
    [isNull |-> FALSE, limited |-> TRUE, energy |-> 5, loudness |-> 0 - 10, tempo |-> 120]

\* the literal getAudioAnalysis returns on 403
LimitedAnalysis == WithTrackDuration(AnalysisObject(TRUE, TRUE, <<>>, TRUE, <<>>), 0)

\* the features literal in the catch block of getTrackAnalysis: five
\* components at 0.5, no tempo, no loudness, no _limited
CatchFeatures ==
    [isNull |-> FALSE, limited |-> FALSE, energy |-> 5, loudness |-> NaN, tempo |-> NaN]

\* the analysis literal in the catch block of getTrackAnalysis: no _limited
CatchAnalysis == AnalysisObject(FALSE, TRUE, <<>>, TRUE, <<>>)

\* getAudioFeatures(trackId)
GetAudioFeatures(response) ==
    IF response.outcome = "ok"
    THEN [threw |-> FALSE, value |-> response.data, substituted |-> FALSE]
    ELSE IF response.outcome = "forbidden"
    THEN [threw |-> FALSE, value |-> LimitedFeatures, substituted |-> TRUE]
    ELSE [threw |-> TRUE, value |-> NullFeatures, substituted |-> FALSE]

\* getAudioAnalysis(trackId)
GetAudioAnalysis(response) ==
    IF response.outcome = "ok"
    THEN [threw |-> FALSE, value |-> response.data, substituted |-> FALSE]
    ELSE IF response.outcome = "forbidden"
    THEN [threw |-> FALSE, value |-> LimitedAnalysis, substituted |-> TRUE]
    ELSE [threw |-> TRUE, value |-> NullAnalysis, substituted |-> FALSE]

\* getTrackAnalysis(trackId): Promise.all rejects as soon as one of the two
\* rejects, reading _limited of data that is null throws, and the catch
\* block returns its literals for both
GetTrackAnalysis(featuresResponse, analysisResponse) ==
    LET f == GetAudioFeatures(featuresResponse)
        a == GetAudioAnalysis(analysisResponse)
    IN  IF f.threw \/ a.threw
           \/ f.value.isNull \/ (~f.value.limited /\ a.value.isNull)
        THEN [threw |-> FALSE, features |-> CatchFeatures, analysis |-> CatchAnalysis,
              limited |-> TRUE, featuresSubstituted |-> TRUE, analysisSubstituted |-> TRUE]
        ELSE [threw |-> FALSE, features |-> f.value, analysis |-> a.value,
              limited |-> (f.value.limited \/ a.value.limited),
              featuresSubstituted |-> f.substituted, analysisSubstituted |-> a.substituted]

\* what the two endpoints answer for a track when they answer
FeaturesData == {FullFeatures, EnergyOnlyFeatures}

AnalysisData ==
    {WithTrackDuration(AnalysisObject(FALSE, TRUE, ss, TRUE, Segments), 200) :
        ss \in {<<>>,
                <<[start |-> 0, duration |-> 30, energy |-> NaN, loudness |-> 0 - 5,
                   tempo |-> 128, confidence |-> 9]>>}}

InitFetch ==
    /\ responses \in [features : [outcome : Outcomes, data : FeaturesData],
                       analysis : [outcome : Outcomes, data : AnalysisData]]
    /\ fetched = NothingFetched
    /\ SimilarityIdle
    /\ ReasonsIdle
    /\ TokensIdle
    /\ OverlapIdle
    /\ EngineIdle
    /\ LaterIdle

FetchOnly ==
    UNCHANGED <<responses, engineVars, similarityVars, reasonVars, tokenVars, overlapVars,
                laterVars>>

\* a component calls getAudioFeatures
CallGetAudioFeatures ==
    /\ fetched.call = "none"
    /\ LET out == GetAudioFeatures(responses.features)
       IN  fetched' = [call |-> "getAudioFeatures", threw |-> out.threw,
                       features |-> out.value, analysis |-> NullAnalysis,
                       limited |-> FALSE,
                       featuresSubstituted |-> out.substituted,
                       analysisSubstituted |-> FALSE]
    /\ FetchOnly

\* a component calls getAudioAnalysis
CallGetAudioAnalysis ==
    /\ fetched.call = "none"
    /\ LET out == GetAudioAnalysis(responses.analysis)
       IN  fetched' = [call |-> "getAudioAnalysis", threw |-> out.threw,
                       features |-> NullFeatures, analysis |-> out.value,
                       limited |-> FALSE,
                       featuresSubstituted |-> FALSE,
                       analysisSubstituted |-> out.substituted]
    /\ FetchOnly

\* a component calls getTrackAnalysis
CallGetTrackAnalysis ==
    /\ fetched.call = "none"
    /\ LET out == GetTrackAnalysis(responses.features, responses.analysis)
       IN  fetched' = [call |-> "getTrackAnalysis", threw |-> out.threw,
                       features |-> out.features, analysis |-> out.analysis,
                       limited |-> out.limited,
                       featuresSubstituted |-> out.featuresSubstituted,
                       analysisSubstituted |-> out.analysisSubstituted]
    /\ FetchOnly

NextFetch ==
    \/ CallGetAudioFeatures
    \/ CallGetAudioAnalysis
    \/ CallGetTrackAnalysis

SpecFetch == InitFetch /\ [][NextFetch]_vars

-----------------------------------------------------------------------------
(* The overlap test of the selection loop (lines 198-208) on one candidate *)
(* and one accepted highlight, times in whole seconds                      *)

MaxTime == 3

InitOverlap ==
    /\ overlapArgs \in [sectionStart : 0..MaxTime, adjustedDuration : 0..MaxTime,
                         highlightStart : 0..MaxTime, highlightDuration : 0..MaxTime]
    /\ overlapTest = NotTested
    /\ SimilarityIdle
    /\ ReasonsIdle
    /\ TokensIdle
    /\ FetchIdle
    /\ EngineIdle
    /\ LaterIdle

\* the callback of selectedHighlights.some on one accepted highlight
TestOverlap ==
    /\ ~overlapTest.tested
    /\ LET sectionStart == overlapArgs.sectionStart
           sectionEnd == overlapArgs.sectionStart + overlapArgs.adjustedDuration
           highlightStart == overlapArgs.highlightStart
           highlightEnd == overlapArgs.highlightStart + overlapArgs.highlightDuration
       IN  overlapTest' = [tested |-> TRUE,
                           value |-> Overlaps(sectionStart, sectionEnd,
                                              highlightStart, highlightEnd)]
    /\ UNCHANGED <<overlapArgs, engineVars, similarityVars, reasonVars, tokenVars, fetchVars,
                   laterVars>>

NextOverlap == TestOverlap

SpecOverlap == InitOverlap /\ [][NextOverlap]_vars

-----------------------------------------------------------------------------
(* The two section scores on a section and on the same section with one    *)
(* input raised: section.loudness, section.energy or section.confidence,   *)
(* or features.energy                                                      *)

CoreIdle ==
    EngineIdle /\ SimilarityIdle /\ ReasonsIdle /\ TokensIdle /\ FetchIdle /\ OverlapIdle

ScoredSections ==
    [start : {0}, duration : {30}, energy : {NaN, 0, 5, 10},
     loudness : {NaN, 0 - 70, 0 - 40, 0 - 10, 0, 5}, tempo : {120}, confidence : {0, 5, 10}]

ScoredFeatures ==
    [isNull : {FALSE}, limited : {FALSE}, energy : {NaN, 0, 5, 9}, loudness : {0 - 5},
     tempo : {0, 120}]

\* the inputs a score reads, and the values each is raised through
Dimensions == {"loudness", "energy", "confidence", "featuresEnergy"}

ValuesOf(dimension) ==
    IF dimension = "loudness" THEN {0 - 70, 0 - 40, 0 - 10, 0, 5}
    ELSE IF dimension = "energy" THEN {0, 5, 10}
    ELSE IF dimension = "confidence" THEN {0, 5, 10}
    ELSE {0, 5, 9}

ValueIn(section, f, dimension) ==
    IF dimension = "loudness" THEN section.loudness
    ELSE IF dimension = "energy" THEN section.energy
    ELSE IF dimension = "confidence" THEN section.confidence
    ELSE f.energy

RaisedSection(section, dimension, v) ==
    IF dimension = "loudness" THEN [section EXCEPT !.loudness = v]
    ELSE IF dimension = "energy" THEN [section EXCEPT !.energy = v]
    ELSE IF dimension = "confidence" THEN [section EXCEPT !.confidence = v]
    ELSE section

RaisedFeatures(f, dimension, v) ==
    IF dimension = "featuresEnergy" THEN [f EXCEPT !.energy = v] ELSE f

InitScore ==
    /\ \E section \in ScoredSections, f \in ScoredFeatures, dimension \in Dimensions :
          \E v \in ValuesOf(dimension) :
              /\ IsNum(ValueIn(section, f, dimension))
              /\ v > ValueIn(section, f, dimension)
              /\ scoreArgs = [section |-> section, features |-> f, dimension |-> dimension,
                              raisedSection |-> RaisedSection(section, dimension, v),
                              raisedFeatures |-> RaisedFeatures(f, dimension, v)]
    /\ scores = [inlineBase |-> NotScored, inlineRaised |-> NotScored,
                 calculateBase |-> NotScored, calculateRaised |-> NotScored]
    /\ CoreIdle
    /\ LaterIdleExcept("score")

ScoreOnly == UNCHANGED <<scoreArgs, coreVars>> /\ LaterUnchangedExcept("score")

\* the map callback of findHighlightSegments computes the score of a section
ScoreInline ==
    /\ \/ /\ ~scores.inlineBase.called
          /\ scores' = [scores EXCEPT !.inlineBase =
                 [called |-> TRUE, value |-> SectionScoreValue(scoreArgs.section, Segments)]]
       \/ /\ ~scores.inlineRaised.called
          /\ scores' = [scores EXCEPT !.inlineRaised =
                 [called |-> TRUE,
                  value |-> SectionScoreValue(scoreArgs.raisedSection, Segments)]]
    /\ ScoreOnly

\* detectHighlights calls calculateSectionScore(section, features)
CallCalculateSectionScore ==
    /\ \/ /\ ~scores.calculateBase.called
          /\ scores' = [scores EXCEPT !.calculateBase =
                 [called |-> TRUE,
                  value |-> CalculateSectionScore(scoreArgs.section, scoreArgs.features)]]
       \/ /\ ~scores.calculateRaised.called
          /\ scores' = [scores EXCEPT !.calculateRaised =
                 [called |-> TRUE,
                  value |-> CalculateSectionScore(scoreArgs.raisedSection,
                                                  scoreArgs.raisedFeatures)]]
    /\ ScoreOnly

NextScore == ScoreInline \/ CallCalculateSectionScore

SpecScore == InitScore /\ [][NextScore]_vars

-----------------------------------------------------------------------------
(* utils/api.js : the response interceptor of the axios instance.  A       *)
(* request is cut at its awaits: sending, the response, the response of    *)
(* POST /auth/refresh.  The retry api(originalRequest) carries the config  *)
(* of the original request, _retry included.                               *)

MaxAttempts == 2

\* a request whose config was left as it came
LeaveUnmarked(request) == request

\* originalRequest._retry = true
MarkRetried(request) == [request EXCEPT !.retry = TRUE]

\* return Promise.reject(error) / return Promise.reject(refreshError)
Rejected(request, with, storage) ==
    [request EXCEPT !.phase = "rejected", !.rejectedWith = with,
                    !.storageThen = IF storage.accessToken \/ storage.refreshToken
                                    THEN "kept" ELSE "removed"]

InitInterceptor ==
    /\ requests = [r \in 1..MaxRequests |-> NoRequest]
    /\ apiStorage \in [accessToken : BOOLEAN, refreshToken : BOOLEAN]
    /\ CoreIdle
    /\ LaterIdleExcept("request")

InterceptorOnly == UNCHANGED coreVars /\ LaterUnchangedExcept("request")

\* a caller makes a request through the instance
SendRequest ==
    /\ \E r \in 1..MaxRequests :
          /\ requests[r].phase = "idle"
          /\ requests' = [requests EXCEPT ![r].phase = "sent"]
    /\ UNCHANGED apiStorage
    /\ InterceptorOnly

\* response => response
ResponseSucceeds ==
    /\ \E r \in 1..MaxRequests :
          /\ requests[r].phase = "sent"
          /\ requests' = [requests EXCEPT ![r].phase = "resolved"]
    /\ UNCHANGED apiStorage
    /\ InterceptorOnly

\* the error handler on a status other than 401, or with no response
ResponseFails ==
    /\ \E r \in 1..MaxRequests :
          /\ requests[r].phase = "sent"
          /\ requests' = [requests EXCEPT ![r] = Rejected(requests[r], "error", apiStorage)]
    /\ UNCHANGED apiStorage
    /\ InterceptorOnly

\* the error handler on a 401, up to its await
Response401 ==
    /\ \E r \in 1..MaxRequests :
          /\ requests[r].phase = "sent"
          /\ IF requests[r].retry
             THEN requests' = [requests EXCEPT ![r] = Rejected(requests[r], "401", apiStorage)]
             ELSE IF ~apiStorage.refreshToken
             THEN requests' = [requests EXCEPT ![r] =
                                  Rejected(MarkRetried(requests[r]), "401", apiStorage)]
             ELSE /\ requests[r].refreshes < MaxAttempts
                  /\ requests' = [requests EXCEPT ![r] =
                         [MarkRetried(requests[r]) EXCEPT !.phase = "refreshing",
                                                          !.refreshes = @ + 1]]
    /\ UNCHANGED apiStorage
    /\ InterceptorOnly

\* the error handler from its await on: POST /auth/refresh answered
RefreshSucceeds ==
    /\ \E r \in 1..MaxRequests :
          /\ requests[r].phase = "refreshing"
          /\ requests[r].retries < MaxAttempts
          /\ requests' = [requests EXCEPT ![r].phase = "sent", ![r].retries = @ + 1]
    /\ apiStorage' = [apiStorage EXCEPT !.accessToken = TRUE]
    /\ InterceptorOnly

\* the catch block: POST /auth/refresh failed
RefreshFails ==
    /\ \E r \in 1..MaxRequests :
          /\ requests[r].phase = "refreshing"
          /\ requests' = [requests EXCEPT ![r] =
                 Rejected(requests[r], "refreshError",
                          [accessToken |-> FALSE, refreshToken |-> FALSE])]
    /\ apiStorage' = [accessToken |-> FALSE, refreshToken |-> FALSE]
    /\ InterceptorOnly

NextInterceptor ==
    \/ SendRequest
    \/ ResponseSucceeds
    \/ ResponseFails
    \/ Response401
    \/ RefreshSucceeds
    \/ RefreshFails

SpecInterceptor == InitInterceptor /\ [][NextInterceptor]_vars

-----------------------------------------------------------------------------
(* pages/AlbumPage.jsx : getTrackHighlights, handleNextTrack,              *)
(* handlePreviousTrack on an album of MaxTracks tracks, a track carried by *)
(* its index in tracks                                                     *)

MaxTracks == 3

AlbumTracks == 1..MaxTracks

\* getTrackHighlights(track) up to its await: nothing happens for a track
\* with an entry in trackHighlights, else the track becomes the current
\* track and detectHighlights is called
GetTrackHighlights(track) ==
    IF track \in trackHighlights
    THEN UNCHANGED <<currentTrack, trackHighlights, pendingHighlights>>
    ELSE /\ currentTrack' = track
         /\ pendingHighlights' = pendingHighlights \cup {track}
         /\ UNCHANGED trackHighlights

InitAlbum ==
    /\ AlbumIdle
    /\ CoreIdle
    /\ LaterIdleExcept("album")

AlbumOnly == UNCHANGED coreVars /\ LaterUnchangedExcept("album")

\* the user picks a track of the list (onPlayHighlight, the button of line 377)
PickTrack ==
    /\ \E track \in AlbumTracks : GetTrackHighlights(track)
    /\ UNCHANGED lastNavigation
    /\ AlbumOnly

\* getTrackHighlights from its await on: detectHighlights resolved and the
\* entry is written, or it rejected and a toast is shown
HighlightsArrive ==
    /\ \E track \in pendingHighlights, ok \in BOOLEAN :
          /\ pendingHighlights' = pendingHighlights \ {track}
          /\ trackHighlights' = IF ok THEN trackHighlights \cup {track} ELSE trackHighlights
    /\ UNCHANGED <<currentTrack, lastNavigation>>
    /\ AlbumOnly

\* handleNextTrack
HandleNextTrack ==
    /\ currentTrack # 0
    /\ IF currentTrack < MaxTracks
       THEN GetTrackHighlights(currentTrack + 1)
       ELSE UNCHANGED <<currentTrack, trackHighlights, pendingHighlights>>
    /\ lastNavigation' = [kind |-> "next", from |-> currentTrack, to |-> currentTrack']
    /\ AlbumOnly

\* handlePreviousTrack
HandlePreviousTrack ==
    /\ currentTrack # 0
    /\ IF currentTrack > 1
       THEN GetTrackHighlights(currentTrack - 1)
       ELSE UNCHANGED <<currentTrack, trackHighlights, pendingHighlights>>
    /\ lastNavigation' = [kind |-> "previous", from |-> currentTrack, to |-> currentTrack']
    /\ AlbumOnly

NextAlbum ==
    \/ PickTrack
    \/ HighlightsArrive
    \/ HandleNextTrack
    \/ HandlePreviousTrack

SpecAlbum == InitAlbum /\ [][NextAlbum]_vars

-----------------------------------------------------------------------------
(* hooks/useSpotifyAPI.js : the detectHighlights callback, on top of       *)
(* getTrackAnalysis                                                        *)

MaxHookSections == 4

\* sections as the streaming API gives them
HookSectionShapes ==
    [start : {0}, duration : {5, 40}, energy : {NaN}, loudness : {0 - 5, 0 - 20},
     tempo : {120}, confidence : {9}]

HookSectionLists ==
    {<<>>} \cup [1..1 -> HookSectionShapes] \cup [1..MaxHookSections -> HookSectionShapes]

\* what GET audio-analysis answers: the sections (when present), and the
\* track object (when present) with its loudness_max (when present)
HookAnalysisData ==
    {[isNull |-> FALSE, limited |-> FALSE, hasSections |-> TRUE, sections |-> ss,
      hasSegments |-> TRUE, segments |-> Segments, trackDuration |-> 200,
      hasTrack |-> t[1], trackLoudnessMax |-> t[2]] :
        ss \in HookSectionLists, t \in {<<FALSE, NaN>>, <<TRUE, NaN>>, <<TRUE, 0 - 10>>}}
    \cup {[isNull |-> FALSE, limited |-> FALSE, hasSections |-> FALSE, sections |-> <<>>,
           hasSegments |-> TRUE, segments |-> Segments, trackDuration |-> 200,
           hasTrack |-> TRUE, trackLoudnessMax |-> NaN]}

\* what GET audio-features answers: energy and danceability in tenths
HookFeaturesData ==
    [isNull : {FALSE}, limited : {FALSE}, energy : {5, 9}, danceability : {3, 8},
     loudness : {0 - 5}, tempo : {120}]

\* the literal of lines 296-302 and 341-347
HookDefaultHighlight ==
    [start |-> 0, duration |-> 30, confidence |-> 10, loudness |-> 0 - 10, tempo |-> 120]

\* the duration as the section has it
UncappedDuration(duration) == duration

\* Math.min(section.duration, 30)
CapDuration(duration) == MathMin(duration, 30)

\* the callback of filter, for an analysis that has a track object
HookKeeps(section, f, a) ==
    \/ /\ IsNum(section.loudness)
       /\ IsNum(a.trackLoudnessMax)
       /\ section.loudness * 10 > a.trackLoudnessMax * 8
    \/ (JsGt(f.energy, 7) /\ JsGt(section.duration, 10))
    \/ (JsGt(f.danceability, 7) /\ JsGt(section.duration, 10))

\* the callback of map, and the object pushed for the first section
HookHighlight(section) ==
    [start |-> section.start,
     duration |-> CapDuration(section.duration),
     confidence |-> section.confidence,
     loudness |-> section.loudness,
     tempo |-> section.tempo]

\* analysis.sections.filter(...).map(...)
RECURSIVE HookFilterMap(_, _, _, _)
HookFilterMap(sections, i, f, a) ==
    IF i > Len(sections) THEN <<>>
    ELSE (IF HookKeeps(sections[i], f, a) THEN <<HookHighlight(sections[i])>> ELSE <<>>)
         \o HookFilterMap(sections, i + 1, f, a)

\* the try block of detectHighlights on what getTrackAnalysis returned;
\* reading loudness_max of an absent track object throws a TypeError
HookTryBlock(got) ==
    IF got.limited \/ ~got.analysis.hasSections \/ Len(got.analysis.sections) = 0
    THEN [threw |-> FALSE, ret |-> <<HookDefaultHighlight>>, path |-> "limited"]
    ELSE IF ~got.analysis.hasTrack
    THEN [threw |-> TRUE, ret |-> <<>>, path |-> "throw"]
    ELSE LET kept == ArraySort("byLoudnessDesc",
                         HookFilterMap(got.analysis.sections, 1, got.features, got.analysis))
             highlights == IF Len(kept) = 0
                           THEN <<HookHighlight(got.analysis.sections[1])>>
                           ELSE kept
         IN  [threw |-> FALSE, ret |-> ArraySlice0(highlights, 3),
              path |-> IF Len(kept) = 0 THEN "first" ELSE "sections"]

\* detectHighlights(trackId) of the hook: whether it rejects (threw), what it
\* resolves to (ret), and the return taken
HookDetectHighlights(featuresResponse, analysisResponse) ==
    LET body == HookTryBlock(GetTrackAnalysis(featuresResponse, analysisResponse))
    IN  IF body.threw
        THEN [threw |-> FALSE, ret |-> <<HookDefaultHighlight>>, path |-> "catch"]
        ELSE body

InitHook ==
    /\ hookResponses \in [features : [outcome : Outcomes, data : HookFeaturesData],
                           analysis : [outcome : Outcomes, data : HookAnalysisData]]
    /\ hookResult = HookNotCalled
    /\ CoreIdle
    /\ LaterIdleExcept("hook")

\* a component calls detectHighlights of the hook
CallHookDetectHighlights ==
    /\ ~hookResult.called
    /\ LET out == HookDetectHighlights(hookResponses.features, hookResponses.analysis)
       IN  hookResult' = [called |-> TRUE, threw |-> out.threw, ret |-> out.ret,
                          path |-> out.path]
    /\ UNCHANGED <<hookResponses, coreVars>>
    /\ LaterUnchangedExcept("hook")

NextHook == CallHookDetectHighlights

SpecHook == InitHook /\ [][NextHook]_vars

-----------------------------------------------------------------------------
(* server/routes/api.js : GET /tracks/:id/highlights, the catch block for  *)
(* a 403 of the analysis.  Times are carried in milliseconds, so that      *)
(* duration = duration_ms / 1000 and its Math.floor are exact.             *)

\* tracks of half a second up to MaxHalfSeconds half seconds
MaxHalfSeconds == 200

\* the literal pushed for a highlight, start and duration in milliseconds
ServerHighlight(startMs, lengthMs) ==
    [start |-> startMs, duration |-> lengthMs, confidence |-> 10, loudness |-> 0 - 10,
     tempo |-> 120]

\* Math.floor(x) of x seconds, x given in milliseconds
FloorSeconds(ms) == (ms \div 1000) * 1000

\* the highlights built from duration = track.body.duration_ms / 1000
FallbackHighlights(durationMs) ==
    IF durationMs > 90000
    THEN <<ServerHighlight(0, 30000),
           ServerHighlight(FloorSeconds(durationMs \div 2) - 15000, 30000),
           ServerHighlight(MathMax(0, FloorSeconds(durationMs - 30000)), 30000)>>
    ELSE IF durationMs > 30000
    THEN <<ServerHighlight(0, 30000),
           ServerHighlight(MathMax(0, FloorSeconds(durationMs - 30000)), 30000)>>
    ELSE <<ServerHighlight(0, MathMin(30000, durationMs))>>

\* the body sent after a 403: the fallback highlights, or the default
\* highlight when getTrack fails
HighlightsAfter403(track) ==
    IF track.getTrack = "ok"
    THEN FallbackHighlights(track.durationMs)
    ELSE <<ServerHighlight(0, 30000)>>

InitServer ==
    /\ serverTrack \in [durationMs : {500 * k : k \in 1..MaxHalfSeconds},
                         getTrack : {"ok", "error"}]
    /\ serverResponse = NotSent
    /\ CoreIdle
    /\ LaterIdleExcept("server")

\* the route answers a request whose analysis call failed with 403
RespondAfter403 ==
    /\ ~serverResponse.sent
    /\ serverResponse' = [sent |-> TRUE, body |-> HighlightsAfter403(serverTrack)]
    /\ UNCHANGED <<serverTrack, coreVars>>
    /\ LaterUnchangedExcept("server")

NextServer == RespondAfter403

SpecServer == InitServer /\ [][NextServer]_vars

-----------------------------------------------------------------------------
(* Properties *)

MaxHighlightsOf(o) == IF o.maxHighlights = NaN THEN DefaultMaxHighlights ELSE o.maxHighlights
MinDurationOf(o) == IF o.minDuration = NaN THEN DefaultMinDuration ELSE o.minDuration
MaxDurationOf(o) == IF o.maxDuration = NaN THEN DefaultMaxDuration ELSE o.maxDuration
MinScoreOf(o) == IF o.minSegmentScore = NaN THEN DefaultMinSegmentScore ELSE o.minSegmentScore

FindReturned == lastCall = "find" /\ ~threw

\* the sections of the input that are candidates: score >= minSegmentScore
\* and duration >= minDuration
CandidateIndexes ==
    {i \in 1..Len(analysis.sections) :
        /\ SectionScoreValue(analysis.sections[i], analysis.segments) # NaN
        /\ SectionScoreValue(analysis.sections[i], analysis.segments) >= MinScoreOf(options)
        /\ analysis.sections[i].duration >= MinDurationOf(options)}

\* [a.start, a.start + a.duration) and [b.start, b.start + b.duration) intersect
Intersect(a, b) ==
    a.start < b.start + b.duration /\ b.start < a.start + a.duration

C2_BoundedCount_AsStated ==
    FindReturned => Len(result) <= MaxHighlightsOf(options)

\* C2: when maxHighlights is at least 1 (or left out, 3), the returned list
\* is never longer than maxHighlights, on any return path.
C2_BoundedCount ==
    (FindReturned /\ MaxHighlightsOf(options) >= 1)
        => Len(result) <= MaxHighlightsOf(options)

\* two candidates that do not intersect, maxHighlights = 1: the loop stops
\* at the limit and one highlight is returned
C2_Witness ==
    /\ FindReturned
    /\ path = "greedy"
    /\ options.maxHighlights = 1
    /\ Len(analysis.sections) = 2
    /\ CandidateIndexes = {1, 2}
    /\ ~Intersect(analysis.sections[1], analysis.sections[2])
    /\ Len(result) = 1

\* C3: every returned highlight has duration <= options.maxDuration (30 when
\* left out), on every return path, the synthetic highlight included.
C3_DurationCap ==
    FindReturned =>
        \A k \in 1..Len(result) : JsLe(result[k].duration, MaxDurationOf(options))

\* C4: the returned list is in ascending order of start, on every return path.
C4_Chronological ==
    FindReturned =>
        \A k \in 1..(Len(result) - 1) : JsLe(result[k].start, result[k + 1].start)

\* C5: if at least maxHighlights candidate sections exist that pairwise do
\* not intersect, no two returned highlights intersect.
C5_NonOverlap ==
    (/\ FindReturned
     /\ \E S \in SUBSET CandidateIndexes :
           /\ Cardinality(S) >= MaxHighlightsOf(options)
           /\ \A i, j \in S :
                 i # j => ~Intersect(analysis.sections[i], analysis.sections[j]))
        => \A j, k \in 1..Len(result) : j # k => ~Intersect(result[j], result[k])

\* C6: with analysis = null, whatever the features and the options are,
\* exactly one highlight is returned and it starts at 0; with features
\* {energy: 0.5} and no options its duration is 30.
C6_DegradedFallback ==
    (FindReturned /\ analysis.isNull)
        => /\ Len(result) = 1
           /\ result[1].start = 0
           /\ (features = EnergyOnlyFeatures /\ options = AllDefaultOptions)
                 => result[1].duration = 30

C6_Witness ==
    /\ FindReturned
    /\ analysis.isNull
    /\ features = EnergyOnlyFeatures
    /\ options = AllDefaultOptions
    /\ Len(result) = 1
    /\ result[1].duration = 30

\* C7: whenever analysis._limited or features._limited is set, the single
\* synthetic highlight (start 0, 'Preview segment') is returned from the
\* degraded path, before any section is scored, also when sections are given.
C7_LimitedMarker ==
    (FindReturned /\ ((~analysis.isNull /\ analysis.limited)
                      \/ (~features.isNull /\ features.limited)))
        => /\ path = "degraded"
           /\ Len(result) = 1
           /\ result[1].start = 0
           /\ result[1].reason = "Preview segment"

\* only the features carry the marker, and the analysis holds a section
\* that would have been a candidate
C7_Witness ==
    /\ FindReturned
    /\ ~features.isNull /\ features.limited
    /\ ~analysis.isNull /\ ~analysis.limited
    /\ analysis.hasSegments
    /\ CandidateIndexes = {1}
    /\ Len(result) = 1
    /\ result[1].reason = "Preview segment"

\* C8: every call of findHighlightSegments on the same analysis, features
\* and options returns the list the first call returned (same length, order
\* and field values), whatever calls were made in between.
C8_Determinism ==
    lastCall = "find" => result = firstResult

\* a second call, on two sections of equal score of which maxHighlights = 1
\* lets only one through
C8_Witness ==
    /\ lastCall = "find"
    /\ findCalls = 2
    /\ path = "greedy"
    /\ options.maxHighlights = 1
    /\ CandidateIndexes = {1, 2}
    /\ analysis.sections[1] # analysis.sections[2]
    /\ SectionScoreValue(analysis.sections[1], analysis.segments)
         = SectionScoreValue(analysis.sections[2], analysis.segments)
    /\ result = firstResult

\* C9: no exception escapes findHighlightSegments, whatever the shape of
\* analysis and features; when the scoring throws, the single default
\* highlight {start: 0, duration: 30, reason: 'Preview segment'} is returned.
C9_NoException ==
    lastCall = "find"
        => /\ ~threw
           /\ path = "catch"
                 => /\ Len(result) = 1
                    /\ result[1].start = 0
                    /\ result[1].duration = 30
                    /\ result[1].reason = "Preview segment"

\* sections given, no segments array: the scoring threw and was caught
C9_Witness ==
    /\ lastCall = "find"
    /\ path = "catch"
    /\ ~analysis.hasSegments
    /\ Len(analysis.sections) = 1
    /\ Len(result) = 1

\* C10: a call of findHighlightSegments or of detectHighlights leaves
\* analysis (its sections in order and content), features and options as
\* they were, and returns an array that is not the input sections array.
C10_ReadOnlyInputs ==
    [][/\ analysis' = analysis
       /\ features' = features
       /\ options' = options
       /\ resultRef' # "sections"]_vars

\* both functions have run on two sections given out of score order and out
\* of chronological order
C10_Witness ==
    /\ lastCall = "detect"
    /\ findCalls >= 1
    /\ Len(analysis.sections) = 2
    /\ analysis.sections[1].start > analysis.sections[2].start
    /\ JsLt(SectionScoreValue(analysis.sections[1], analysis.segments),
            SectionScoreValue(analysis.sections[2], analysis.segments))
    /\ Len(result) = 2

\* the components of a feature vector lie in [0,1]
InUnitRange(f) ==
    /\ ~f.isNull
    /\ \A c \in {f.energy, f.danceability, f.valence, f.acousticness, f.instrumentalness} :
          IsNum(c) /\ c >= 0 /\ c <= 10

\* C11: calculateTrackSimilarity(A, B) and calculateTrackSimilarity(B, A)
\* are the same value for all feature vectors A and B; when one or both
\* arguments are absent both orders give 0.
C11_SimilaritySymmetry ==
    (similarity[<<1, 2>>] # Uncalled /\ similarity[<<2, 1>>] # Uncalled)
        => /\ similarity[<<1, 2>>] = similarity[<<2, 1>>]
           /\ (similarityArgs[1].isNull \/ similarityArgs[2].isNull)
                 => similarity[<<1, 2>>] = 0 /\ similarity[<<2, 1>>] = 0

\* both orders called on two different vectors that are neither identical
\* nor at the largest distance
C11_Witness ==
    /\ similarity[<<1, 2>>] # Uncalled
    /\ similarity[<<2, 1>>] # Uncalled
    /\ InUnitRange(similarityArgs[1])
    /\ InUnitRange(similarityArgs[2])
    /\ similarityArgs[1].energy > similarityArgs[2].energy
    /\ similarity[<<1, 2>>] > 0
    /\ similarity[<<1, 2>>] < SimScale

\* C12: for two feature vectors whose five components lie in [0,1],
\* 0 <= calculateTrackSimilarity(A, B) <= 1, and calculateTrackSimilarity(A, A) = 1.
C12_SimilarityBounds ==
    \A i, j \in {1, 2} :
        (/\ similarity[<<i, j>>] # Uncalled
         /\ InUnitRange(similarityArgs[i])
         /\ InUnitRange(similarityArgs[j]))
            => /\ IsNum(similarity[<<i, j>>])
               /\ 0 <= similarity[<<i, j>>]
               /\ similarity[<<i, j>>] <= SimScale
               /\ (i = j => similarity[<<i, j>>] = SimScale)

\* a vector compared with itself and with the vector at the largest distance
C12_Witness ==
    /\ InUnitRange(similarityArgs[1])
    /\ InUnitRange(similarityArgs[2])
    /\ similarity[<<1, 1>>] = SimScale
    /\ similarity[<<1, 2>>] = 0
    /\ DistanceSum(similarityArgs[1], similarityArgs[2]) = 500

\* C13: generateRecommendationReasons returns a non-empty list whenever
\* features is non-null, for any track value and any userPreferences, none
\* included, and returns the empty list when features is null.
C13_ReasonNonEmptiness ==
    reasons.called
        => /\ ~reasons.threw
           /\ (~reasonArgs[2].isNull => Len(reasons.ret) >= 1)
           /\ (reasonArgs[2].isNull => reasons.ret = <<>>)

\* C14: across all interleavings of the callers in the client (mount-time
\* check, URL callback handler, refresh timers, apiCall's refresh-and-retry,
\* the 401 interceptor), at most one token refresh request and at most one
\* code exchange request is in flight at any time.
C14_SingleInFlight ==
    /\ TotalRefreshesInFlight <= 1
    /\ exchangesInFlight <= 1

\* C15: every features or analysis object that getAudioFeatures,
\* getAudioAnalysis or getTrackAnalysis returns with default or empty values
\* in place of data it could not fetch carries _limited = true, on every
\* failure path (403 and any other error).
C15_LimitedMarkerOnSubstitutes ==
    (fetched.call # "none" /\ ~fetched.threw)
        => /\ fetched.featuresSubstituted => fetched.features.limited
           /\ fetched.analysisSubstituted => fetched.analysis.limited

\* C16: for the two sections of the example (start 0, duration 30, loudness
\* -5, tempo 128; start 30, duration 25, loudness -20, tempo 90), features
\* {energy: 0.9, ...} and options {maxHighlights: 3}, findHighlightSegments
\* returns exactly one highlight, with start = 0 and duration <= 30.
C16_SpecExample ==
    (/\ FindReturned
     /\ analysis.sections = ExampleSections
     /\ features = ExampleFeatures
     /\ options = ExampleOptions)
        => /\ Len(result) = 1
           /\ result[1].start = 0
           /\ JsLe(result[1].duration, 30)

\* the example with its segments: no section has a score, and the
\* best-section return gives the first section
C16_Witness ==
    /\ FindReturned
    /\ analysis.sections = ExampleSections
    /\ analysis.hasSegments
    /\ features = ExampleFeatures
    /\ options = ExampleOptions
    /\ path = "best"
    /\ result[1].start = 0
    /\ result[1].duration = 30

\* the scoring runs: the input is not degraded and the segments are there
ScoringRuns == ~Degraded(analysis, features) /\ analysis.hasSegments

\* section i scores at least as high as every other section
HasMaximumScore(i) ==
    \A j \in 1..Len(analysis.sections) :
        j # i => JsGe(SectionScoreValue(analysis.sections[i], analysis.segments),
                      SectionScoreValue(analysis.sections[j], analysis.segments))

\* highlight h is section i with its duration replaced
OriginatesFrom(h, i) ==
    WithDuration(h, analysis.sections[i].duration)
        = ScoredSection(analysis.sections[i], analysis.segments)

\* C17: when no section satisfies score >= minSegmentScore and duration >=
\* minDuration, findHighlightSegments returns exactly one highlight, it is
\* the section with the maximum score among all sections, and its duration
\* lies in [minDuration, maxDuration].
C17_EmptyCandidateFallback ==
    (FindReturned /\ ScoringRuns /\ CandidateIndexes = {})
        => /\ Len(result) = 1
           /\ \E i \in 1..Len(analysis.sections) :
                 OriginatesFrom(result[1], i) /\ HasMaximumScore(i)
           /\ JsGe(result[1].duration, MinDurationOf(options))
           /\ JsLe(result[1].duration, MaxDurationOf(options))

\* C18 as stated: there are sections and options with maxHighlights >= 1
\* for which the greedy pass accepts no candidate, the top-N fallback is
\* taken, and two of the returned highlights intersect.  Stated of the
\* inputs a caller can start from, before its first call.
C18_OverlapReachable_AsStated ==
    lastCall = "none" =>
        \E ss \in [1..WideSections -> WideShapes], o \in WideOptions :
            /\ MaxHighlightsOf(o) >= 1
            /\ LET out == FindHighlightSegments(
                              AnalysisObject(FALSE, TRUE, ss, TRUE, Segments), FullFeatures, o)
               IN  /\ out.path = "topN"
                   /\ \E j, k \in 1..Len(out.ret) :
                         j # k /\ Intersect(out.ret[j], out.ret[k])

\* C18: with maxHighlights >= 1 the greedy pass accepts its first candidate,
\* so the top-N fallback is never taken and no two returned highlights
\* intersect; the fallback is taken only with maxHighlights <= 0.
C18_TopNNeedsNoRoom ==
    (FindReturned /\ ScoringRuns)
        => /\ path = "topN" => MaxHighlightsOf(options) <= 0
           /\ MaxHighlightsOf(options) >= 1
                 => \A j, k \in 1..Len(result) : j # k => ~Intersect(result[j], result[k])

\* three candidates that all intersect one another, room for two: the
\* greedy pass keeps the first and returns it alone
C18_Witness ==
    /\ FindReturned
    /\ options.maxHighlights = 2
    /\ Len(analysis.sections) = 3
    /\ CandidateIndexes = {1, 2, 3}
    /\ \A i, j \in 1..3 : Intersect(analysis.sections[i], analysis.sections[j])
    /\ path = "greedy"
    /\ Len(result) = 1

\* s < h + e and h < s + d: [s, s + d) and [h, h + e) have a point in common
StandardIntersection ==
    /\ overlapArgs.sectionStart < overlapArgs.highlightStart + overlapArgs.highlightDuration
    /\ overlapArgs.highlightStart < overlapArgs.sectionStart + overlapArgs.adjustedDuration

\* C19 as stated: for every candidate [s, s+d) and accepted highlight
\* [h, h+e) with d >= 0 and e >= 0, the three-clause test is true exactly
\* when s < h+e and h < s+d.
C19_StandardIntersection_AsStated ==
    overlapTest.tested => (overlapTest.value <=> StandardIntersection)

\* C19: for every candidate [s, s+d) and accepted highlight [h, h+e) with
\* d > 0 and e > 0, the three-clause test is true exactly when s < h+e and
\* h < s+d; two intervals that only touch at an endpoint do not overlap.
C19_StandardIntersection ==
    (/\ overlapTest.tested
     /\ overlapArgs.adjustedDuration > 0
     /\ overlapArgs.highlightDuration > 0)
        => (overlapTest.value <=> StandardIntersection)

\* the candidate ends where the accepted highlight starts: not overlapping
C19_Witness ==
    /\ overlapTest.tested
    /\ overlapArgs.adjustedDuration > 0
    /\ overlapArgs.highlightDuration > 0
    /\ overlapArgs.sectionStart + overlapArgs.adjustedDuration = overlapArgs.highlightStart
    /\ ~overlapTest.value

\* analysis.track.duration when it is known, 30 otherwise
TrackDurationOr30(a) ==
    IF a.isNull \/ ~IsNum(a.trackDuration) THEN 30 ELSE a.trackDuration

\* C20: on the degraded path the single synthetic highlight has duration
\* min(options.maxDuration, D), D being analysis.track.duration when it is
\* known and 30 otherwise; it never extends past the end of a track shorter
\* than 30 seconds.
C20_DegradedDuration ==
    (FindReturned /\ path = "degraded")
        => /\ Len(result) = 1
           /\ result[1].duration
                 = MathMin(MaxDurationOf(options), TrackDurationOr30(analysis))
           /\ result[1].start + result[1].duration <= TrackDurationOr30(analysis)

\* the value features supplies for a metric, or the default when features is
\* absent or does not carry it
SuppliedOr(f, x, d) == IF f.isNull \/ ~IsNum(x) THEN d ELSE x

\* C21: on the degraded path the synthetic highlight's energy, loudness and
\* tempo are the values of features whenever features supplies them, energy 0
\* and loudness 0 included, and 0.5, -10 and 120 only when the value is unknown.
C21_DegradedMetrics ==
    (FindReturned /\ path = "degraded")
        => /\ Len(result) = 1
           /\ result[1].energy = SuppliedOr(features, features.energy, 5)
           /\ result[1].loudness = SuppliedOr(features, features.loudness, 0 - 10)
           /\ result[1].tempo = SuppliedOr(features, features.tempo, 120)

\* section i of the input is malformed: its duration is not positive
Malformed(i) == ~JsGt(analysis.sections[i].duration, 0)

\* C22: a section with non-positive duration is never the origin of a
\* returned highlight of findHighlightSegments, on any path, and its presence
\* does not make the call fail: every returned highlight originates from a
\* section of positive duration.
C22_MalformedExcluded ==
    (lastCall = "find" /\ ScoringRuns /\ \E i \in 1..Len(analysis.sections) : Malformed(i))
        => /\ ~threw
           /\ \A k \in 1..Len(result) :
                 \E i \in 1..Len(analysis.sections) :
                     ~Malformed(i) /\ OriginatesFrom(result[k], i)

\* the raised score is not below the base score: a numeric base score stays
\* numeric and does not get smaller
NotDecreased(base, raised) ==
    (base.called /\ raised.called /\ IsNum(base.value))
        => IsNum(raised.value) /\ raised.value >= base.value

\* C23: with all other inputs fixed, the section score (calculateSectionScore,
\* and the inline score of findHighlightSegments) does not decrease when the
\* section's loudness increases, when energy increases, or when the section's
\* confidence increases.
C23_ScoreMonotonicity ==
    /\ NotDecreased(scores.inlineBase, scores.inlineRaised)
    /\ NotDecreased(scores.calculateBase, scores.calculateRaised)

\* both scores were computed before and after a rise of the loudness, and
\* each of them rose
C23_Witness ==
    /\ scoreArgs.dimension = "loudness"
    /\ scores.inlineBase.called /\ scores.inlineRaised.called
    /\ scores.calculateBase.called /\ scores.calculateRaised.called
    /\ IsNum(scores.inlineBase.value) /\ scores.inlineRaised.value > scores.inlineBase.value
    /\ IsNum(scores.calculateBase.value)
    /\ scores.calculateRaised.value > scores.calculateBase.value

\* the fixed order of the reasons
ReasonOrder ==
    <<"energy", "danceability", "valence", "acousticness", "instrumental", "popularity",
      "artist", "genre", "favoriteArtist">>

\* the reason is triggered by the arguments of the call
Triggered(reason) ==
    LET track == reasonArgs[1]
        f == reasonArgs[2]
        userPreferences == reasonArgs[3]
    IN  IF reason = "energy" THEN JsGt(f.energy, 7)
        ELSE IF reason = "danceability" THEN JsGt(f.danceability, 7)
        ELSE IF reason = "valence" THEN JsGt(f.valence, 7)
        ELSE IF reason = "acousticness" THEN JsGt(f.acousticness, 7)
        ELSE IF reason = "instrumental" THEN JsGt(f.instrumentalness, 5)
        ELSE IF reason = "popularity" THEN JsGt(track.popularity, 70)
        ELSE IF reason = "artist" THEN track.hasArtists /\ Len(track.artists) > 0
        ELSE IF reason = "genre"
             THEN /\ ~userPreferences.isNull
                  /\ userPreferences.hasFavoriteGenres
                  /\ Len(userPreferences.favoriteGenres) > 0
        ELSE /\ ~userPreferences.isNull
             /\ userPreferences.hasFavoriteArtists
             /\ track.hasArtists
             /\ \E a \in 1..Len(userPreferences.favoriteArtists) :
                    \E ta \in 1..Len(track.artists) :
                        track.artists[ta] = userPreferences.favoriteArtists[a]

TriggeredInOrder == SelectSeq(ReasonOrder, LAMBDA reason : Triggered(reason))

\* C24: generateRecommendationReasons returns at most 3 reasons, the first
\* (up to 3) of the triggered reasons in the fixed order energy, danceability,
\* valence, acousticness, instrumentalness, popularity, artist, preferred
\* genre, favourite artist; the generic filler is appended only when fewer
\* than 2 reasons were triggered and is then last.
C24_PriorityOrderedPrefix ==
    (reasons.called /\ ~reasons.threw /\ ~reasonArgs[2].isNull)
        => /\ Len(reasons.ret) <= 3
           /\ reasons.ret =
                 IF Len(TriggeredInOrder) < 2
                 THEN Append(TriggeredInOrder, "generic")
                 ELSE SubSeq(TriggeredInOrder, 1, IF Len(TriggeredInOrder) < 3
                                                  THEN Len(TriggeredInOrder) ELSE 3)

\* a call with more than three triggered reasons, popularity among those
\* cut off, and a call with one triggered reason and the filler behind it
C24_Witness ==
    /\ reasons.called /\ ~reasons.threw
    /\ \/ /\ Len(TriggeredInOrder) > 3
          /\ Triggered("popularity")
          /\ Len(reasons.ret) = 3
          /\ reasons.ret[1] = "energy"
       \/ /\ Len(TriggeredInOrder) = 1
          /\ reasons.ret = <<"artist", "generic">>

\* C25: after any sequence of mount-time token checks, code exchanges,
\* URL-token logins and refreshAccessToken calls (scheduled or made by
\* apiCall's retry), at most one scheduled call of refreshAccessToken is
\* pending at any time.
C25_SingleRefreshTimer == refreshTimers <= 1

\* C26: for a given code, exchangeCodeForTokens sends at most one POST to
\* /auth/exchange unless the previous attempt for that code failed; a call
\* made while an exchange is in flight sends nothing, so no two exchanges are
\* in flight; and after a failed exchange the same code may be submitted again.
C26_ExchangedAtMostOnce ==
    /\ \A c \in Codes : exchangeAttempts[c].before \in {"none", "failed"}
    /\ Cardinality({c \in Codes : exchangeAttempts[c].last = "inFlight"}) <= 1
    /\ \A c \in Codes : exchangeAttempts[c].last = "failed" => processedCode # c

\* C27: for any request made through the axios api instance, a 401 response
\* triggers at most one token refresh and at most one retry of that request;
\* a second 401 on the retried request is rejected to the caller, and if the
\* refresh itself fails both stored tokens are removed and the error is
\* rejected.
C27_RetriesOnce ==
    \A r \in 1..MaxRequests :
        /\ requests[r].refreshes <= 1
        /\ requests[r].retries <= 1
        /\ requests[r].retries <= requests[r].refreshes
        /\ requests[r].phase = "refreshing" => requests[r].retries = 0
        /\ requests[r].rejectedWith = "refreshError" => requests[r].storageThen = "removed"

\* a request was retried after a refresh, its retry met a 401 and was
\* rejected; another was rejected because its refresh failed
C27_Witness ==
    \E r, q \in 1..MaxRequests :
        /\ requests[r].retries = 1
        /\ requests[r].phase = "rejected"
        /\ requests[r].rejectedWith = "401"
        /\ requests[q].rejectedWith = "refreshError"

\* C28: on AlbumPage, whenever currentTrack is not the last track,
\* handleNextTrack makes the following track the current track (and
\* handlePreviousTrack symmetrically for a non-first track), including when
\* that track's highlights were already fetched earlier.
C28_NavigationMoves ==
    /\ (lastNavigation.kind = "next" /\ lastNavigation.from < MaxTracks)
          => lastNavigation.to = lastNavigation.from + 1
    /\ (lastNavigation.kind = "previous" /\ lastNavigation.from > 1)
          => lastNavigation.to = lastNavigation.from - 1

\* C29: for every outcome of the underlying fetches (success, 403-limited
\* data, any thrown error), the detectHighlights callback of useSpotifyAPI
\* resolves to a list of between 1 and 3 highlights, each with duration <=
\* 30, and it never rejects.
C29_HookNeverEmpty ==
    hookResult.called
        => /\ ~hookResult.threw
           /\ Len(hookResult.ret) >= 1
           /\ Len(hookResult.ret) <= 3
           /\ \A k \in 1..Len(hookResult.ret) : JsLe(hookResult.ret[k].duration, 30)

\* both fetches succeeded, more than three sections pass the filter, one of
\* them longer than 30 seconds, and three capped highlights came back
C29_Witness ==
    /\ hookResult.called
    /\ hookResult.path = "sections"
    /\ hookResponses.features.outcome = "ok"
    /\ hookResponses.analysis.outcome = "ok"
    /\ Len(hookResponses.analysis.data.sections) > 3
    /\ \A i \in 1..Len(hookResponses.analysis.data.sections) :
          hookResponses.analysis.data.sections[i].duration > 30
    /\ Len(hookResult.ret) = 3
    /\ hookResult.ret[1].duration = 30

\* C30: for every track duration d > 0, the highlights that GET
\* /tracks/:id/highlights builds after a 403 all satisfy 0 <= start and
\* start + duration <= d, and no two of them have overlapping intervals.
\* Stated of the responses built from the track's duration (getTrack
\* succeeded).
C30_FallbackWellPlaced ==
    (serverResponse.sent /\ serverTrack.getTrack = "ok")
        => /\ \A k \in 1..Len(serverResponse.body) :
                 /\ serverResponse.body[k].start >= 0
                 /\ serverResponse.body[k].start + serverResponse.body[k].duration
                        <= serverTrack.durationMs
           /\ \A j, k \in 1..Len(serverResponse.body) :
                 j # k => ~Intersect(serverResponse.body[j], serverResponse.body[k])

====
